---- MODULE Spec2Model ----
(***************************************************************************)
(* Case workflow, persistence sync and AI gateway of the dispute           *)
(* mediation application (App.tsx second revision, VerdictSection.tsx,     *)
(* services/mockDb with the remote store, services/geminiService).         *)
(*                                                                         *)
(* One case is modelled.  Every browser session holds its own local store  *)
(* (localStorage) and talks to the one remote table; the React view of a   *)
(* session is refreshed from its local store every two seconds and after   *)
(* every update, so the view and the local store are one variable.         *)
(*                                                                         *)
(* Specifications:                                                         *)
(*   Spec          the workflow of two sessions (initiator, respondent)    *)
(*   SpecSync      the workflow of a defended case with polling of the     *)
(*                 remote row and deletion of the local case               *)
(*   SpecContent   the workflow up to DEBATE with evidence and rebuttal    *)
(*                 edits                                                   *)
(*   SpecSpectator the workflow with an account switch in one session      *)
(*   SpecFaulty    the polled workflow with remote writes that fail        *)
(*   SpecRetry     one gateway call (retryWithBackoff inside callGemini)   *)
(*   SpecVerdict   the validation of one model output by generateVerdict   *)
(*   SpecJoin      joinCase with its read and its write as two steps       *)
(*   SpecDelete    deletion with a poll whose read and write are two steps *)
(*   SpecHearing   the complete hearing of two parties on two devices      *)
(*   SpecEnrich    one call of an enrichment operation of the service      *)
(*   SpecDebate    rebuttal and argument writes of both sides with polling *)
(*   SpecPoll      SpecSync with every session polling again and again     *)
(*   SpecDefault   the default judgment beside the defence, with polling   *)
(*   SpecContest   the evidence of both sides and its contest flags        *)
(*   SpecJudging   one call of analyzeDisputeFocus or generateVerdict      *)
(*   SpecClean     cleanJson of one response of the model                  *)
(*   SpecCompare   the fingerprints of two states of the case              *)
(*   SpecReuse     the debate entered again after a step back              *)
(*   SpecGenerate  one call of smartGenerate with its three backends       *)
(*   SpecRead      the polled workflow and the results of syncCaseFromCloud*)
(*   SpecRejoin    interleaving joins and the results of joinCase          *)
(***************************************************************************)
EXTENDS Integers, Sequences, FiniteSets, TLC

\* ---------------------------------------------------------------- bounds
\* inference calls (dispute extraction, verdict) started in one behaviour
MaxCalls == 2
\* evidence items the initiator may hold
MaxEvidence == 1
\* dispute points one extraction may return
MaxPoints == 1
\* account switches in one behaviour
MaxSwitches == 1
\* remote writes that fail in one behaviour of SpecFaulty
MaxFailures == 1
\* characters of a responsibility share the model returns as a string
MaxLen == 2
\* the longest prose before and after the JSON value of a response, in pieces
MaxProse == 2
\* evidence items and dispute points of the complete two-party hearing
TraceEvidence == 2
TracePoints == 2

\* ------------------------------------------------------------ enumerations
DRAFTING == "DRAFTING"
PLAINTIFF_EVIDENCE == "PLAINTIFF_EVIDENCE"
DEFENSE_PENDING == "DEFENSE_PENDING"
CROSS_EXAMINATION == "CROSS_EXAMINATION"
DEBATE == "DEBATE"
ADJUDICATING == "ADJUDICATING"
CLOSED == "CLOSED"
CANCELLED == "CANCELLED"

PLAINTIFF == "PLAINTIFF"
DEFENDANT == "DEFENDANT"
SPECTATOR == "SPECTATOR"

\* statusOrder table of syncCaseFromCloud (an unknown status counts 0)
statusOrder(st) ==
  CASE st = DRAFTING -> 0
    [] st = PLAINTIFF_EVIDENCE -> 1
    [] st = DEFENSE_PENDING -> 2
    [] st = CROSS_EXAMINATION -> 3
    [] st = DEBATE -> 4
    [] st = ADJUDICATING -> 5
    [] st = CLOSED -> 6
    [] st = CANCELLED -> 99
    [] OTHER -> 0

\* ------------------------------------------------------------------ values
Sessions == {"A", "B"}
Users == {"u1", "u2", "u3"}
\* defendantId undefined / defendant_id NULL
NoUser == ""
\* a column that is NULL in the remote row, a field that is undefined
Null == "null"
Undefined == "undefined"
\* lastAnalyzedHash undefined
NoHash == <<>>
\* verdict undefined / NULL
NoVerdict == <<>>
\* no row in the remote table, no entry in the local store
NoRow == [absent |-> TRUE]
NoCase == [absent |-> TRUE]

\* the default-judgment texts written by handleDefaultJudgment
AbsentStatement == "(defendant absent, defence waived)"
AbsentSummary == "defendant did not appear"

\* texts a user types (one statement, one defence, one rebuttal)
DescText == "desc"
DefenseText == "defence"
RebuttalTexts == {"", "rebut"}
\* what a side types for a dispute point
ArgTexts == {"", "arg"}
\* what summarizeStatement returns for the defence
SummaryText == "summary"

\* ---------------------------------------------------------------- variables
VARIABLES
  remote,      \* the row of the case in the remote table, or NoRow
  local,       \* per session: the case in its local store, or NoCase
  user,        \* per session: the signed-in user
  call,        \* per session: the dispute / verdict inference call in flight
  nCalls,      \* inference calls started so far
  nSwitch,     \* account switches so far
  faults,      \* remote writes that are still going to fail
  analyzed,    \* fingerprint of the last successful extraction of the case
  notice,      \* the last message shown or logged: <<session, message>>
  attempt,     \* retryWithBackoff: the loop index i
  log,         \* retryWithBackoff: the backend replies so far (smartGenerate:
               \* the calls of the backends with their replies)
  waits,       \* retryWithBackoff: the delays waited so far
  outcome,     \* callGemini, smartGenerate: pending, the text returned or the
               \* error thrown
  raw,         \* generateVerdict: the parsed model output
  verdict,     \* generateVerdict: the verdict returned, or NoResult
  asked,       \* the operation called last with its arguments, or NoRequest
  answer       \* what that operation gave its caller, or NoResult

caseVars == <<remote, local, user, call, nCalls, nSwitch, faults, analyzed, notice>>
gatewayVars == <<attempt, log, waits, outcome>>
verdictVars == <<raw, verdict>>
enrichVars == <<asked, answer>>
vars == <<caseVars, gatewayVars, verdictVars, enrichVars>>

NoCall == [kind |-> "none"]
NoNotice == <<"", "none">>

\* ------------------------------------------------------------ case records
\* MockDb.createCase: the new local case
newCase(plaintiffId) ==
  [ plaintiffId |-> plaintiffId,
    defendantId |-> NoUser,
    description |-> "",
    evidence |-> <<>>,
    defenseStatement |-> "",
    defenseSummary |-> "",
    defendantEvidence |-> <<>>,
    plaintiffRebuttal |-> "",
    defendantRebuttal |-> "",
    disputePoints |-> <<>>,
    lastAnalyzedHash |-> NoHash,
    status |-> DRAFTING,
    verdict |-> NoVerdict ]

\* MockDb.createCase: the row inserted in the remote table
newRow(plaintiffId) ==
  [ plaintiff_id |-> plaintiffId,
    defendant_id |-> NoUser,
    description |-> "",
    evidence |-> <<>>,
    defense_statement |-> Null,
    defense_summary |-> Null,
    defendant_evidence |-> <<>>,
    plaintiff_rebuttal |-> Null,
    defendant_rebuttal |-> Null,
    dispute_points |-> <<>>,
    status |-> DRAFTING,
    verdict |-> NoVerdict ]

\* x || ''
orEmpty(x) == IF x = Null THEN "" ELSE x

\* a mapping that leaves the evidence column out
fromRowWithoutEvidence(r) ==
  [ plaintiffId |-> r.plaintiff_id,
    defendantId |-> r.defendant_id,
    description |-> orEmpty(r.description),
    evidence |-> <<>>,
    defenseStatement |-> orEmpty(r.defense_statement),
    defenseSummary |-> r.defense_summary,
    defendantEvidence |-> r.defendant_evidence,
    plaintiffRebuttal |-> orEmpty(r.plaintiff_rebuttal),
    defendantRebuttal |-> orEmpty(r.defendant_rebuttal),
    disputePoints |-> r.dispute_points,
    lastAnalyzedHash |-> NoHash,
    status |-> r.status,
    verdict |-> r.verdict ]

\* the snake_case to camelCase mapping of syncCaseFromCloud and joinCase
fromRow(r) ==
  [ plaintiffId |-> r.plaintiff_id,
    defendantId |-> r.defendant_id,
    description |-> orEmpty(r.description),
    evidence |-> r.evidence,
    defenseStatement |-> orEmpty(r.defense_statement),
    defenseSummary |-> r.defense_summary,
    defendantEvidence |-> r.defendant_evidence,
    plaintiffRebuttal |-> orEmpty(r.plaintiff_rebuttal),
    defendantRebuttal |-> orEmpty(r.defendant_rebuttal),
    disputePoints |-> r.dispute_points,
    lastAnalyzedHash |-> NoHash,
    status |-> r.status,
    verdict |-> r.verdict ]

\* the fields of a patch that may carry the value undefined
TextFields ==
  {"description", "defenseStatement", "defenseSummary", "plaintiffRebuttal",
   "defendantRebuttal", "status"}

\* updates.f !== undefined
defined(patch, f) ==
  /\ f \in DOMAIN patch
  /\ (f \in TextFields => patch[f] # Undefined)

\* the camelCase to snake_case payload mapping of updateCase
columnOf ==
  [ description |-> "description",
    status |-> "status",
    defenseStatement |-> "defense_statement",
    defenseSummary |-> "defense_summary",
    plaintiffRebuttal |-> "plaintiff_rebuttal",
    defendantRebuttal |-> "defendant_rebuttal",
    evidence |-> "evidence",
    defendantEvidence |-> "defendant_evidence",
    disputePoints |-> "dispute_points",
    verdict |-> "verdict",
    defendantId |-> "defendant_id" ]

payload(patch) ==
  LET fs == {f \in DOMAIN columnOf : defined(patch, f)}
      field(col) == CHOOSE f \in fs : columnOf[f] = col
  IN [col \in {columnOf[f] : f \in fs} |-> patch[field(col)]]

\* { ...db[id], ...updates }
merge(c, patch) ==
  [f \in DOMAIN c |-> IF f \in DOMAIN patch THEN patch[f] ELSE c[f]]

\* an update that stores a fresh row holding the payload alone
updateRowReplacing(r, pl) ==
  IF r = NoRow THEN r
  ELSE [col \in DOMAIN r |->
          IF col \in DOMAIN pl THEN pl[col]
          ELSE IF col \in {"plaintiff_id", "defendant_id", "status"} THEN r[col]
          ELSE newRow(r.plaintiff_id)[col]]

\* supabase update(payload).eq('id', id): the named columns of the row
updateRow(r, pl) ==
  IF r = NoRow THEN r
  ELSE [col \in DOMAIN r |-> IF col \in DOMAIN pl THEN pl[col] ELSE r[col]]

\* role of the signed-in user in the case shown (CaseManager)
roleOf(u, c) ==
  IF u = c.plaintiffId THEN PLAINTIFF
  ELSE IF u = c.defendantId THEN DEFENDANT
  ELSE SPECTATOR

\* VerdictSection.computeContentHash over the case shown
computeContentHash(c) ==
  << c.description, c.defenseStatement, c.plaintiffRebuttal, c.defendantRebuttal,
     [i \in DOMAIN c.evidence |->
        <<c.evidence[i].id, c.evidence[i].description, c.evidence[i].isContested>>],
     [i \in DOMAIN c.defendantEvidence |->
        <<c.defendantEvidence[i].id, c.defendantEvidence[i].description,
          c.defendantEvidence[i].isContested>>] >>

\* ------------------------------------------------------------------- update
\* MockDb.updateCase as called by CaseManager.update: the patch is merged into
\* the local case, its payload is written to the remote row unless the write
\* fails (the failure is only logged), and the view shows the merged case.
updateCase(s, patch) ==
  /\ local[s] # NoCase
  /\ local' = [local EXCEPT ![s] = merge(local[s], patch)]
  /\ IF DOMAIN payload(patch) = {} \/ remote = NoRow
     THEN UNCHANGED <<remote, faults>>
     ELSE \/ /\ remote' = updateRow(remote, payload(patch))
             /\ UNCHANGED faults
          \/ /\ faults > 0
             /\ faults' = faults - 1
             /\ UNCHANGED remote

\* a handler of the case screen is there only while the case is shown
shown(s) == local[s] # NoCase
role(s) == roleOf(user[s], local[s])
isPlaintiff(s) == role(s) = PLAINTIFF
isDefendant(s) == role(s) = DEFENDANT

\* ------------------------------------------------------------ gateway values
\* retryWithBackoff(operation, retries = 5, initialDelay = 1000)
retries == 5
initialDelay == 1000

\* the substrings retryWithBackoff and callGemini look for in error.message;
\* a message is the set of these it contains
Markers == {"overloaded", "timeout", "timed out", "Resource exhausted", "429"}

\* a backend reply: a response with its text, or an error with error.status
\* (0: none), the code found in a JSON message (0: none) and the message
response(text) == [ok |-> TRUE, status |-> 0, code |-> 0, message |-> {}, text |-> text]
failure(status, code, message) ==
  [ok |-> FALSE, status |-> status, code |-> code, message |-> message, text |-> Undefined]

ResponseTexts == {"{json}", Undefined}
Errors ==
  { failure(503, 503, {}), failure(429, 429, {"429", "Resource exhausted"}),
    failure(500, 0, {}), failure(0, 503, {"overloaded"}),
    failure(0, 0, {"timed out"}), failure(400, 400, {}), failure(0, 0, {}) }

\* the messages callGemini throws
RateLimited == "rate limited"
TimedOut == "timed out"
Adjourned == "adjourned"

Pending == [state |-> "pending", value |-> ""]
Returned(text) == [state |-> "returned", value |-> text]
Thrown(message) == [state |-> "thrown", value |-> message]

\* ------------------------------------------------------------ verdict values
\* a JSON value of responsibilitySplit.plaintiff / .defendant: a number
\* (counted in hundredths), a string of characters, or anything else
Number(n) == [type |-> "number", num |-> 100 * n, str |-> <<>>]
String(s) == [type |-> "string", num |-> 0, str |-> s]
Other == [type |-> "other", num |-> 0, str |-> <<>>]

NoSplit == [absent |-> TRUE]
NoRaw == [absent |-> TRUE]
NoResult == [absent |-> TRUE]
\* no enrichment operation has been called
NoRequest == [absent |-> TRUE]

\* ------------------------------------------------------------------- Init
\* The state after MockDb.createCase by u1 in session A: the local case is
\* stored whether or not the remote insert succeeded.  No gateway call has
\* been made and no model output is being validated.
InitCase ==
  /\ remote \in {newRow("u1"), NoRow}
  /\ local = [s \in Sessions |-> IF s = "A" THEN newCase("u1") ELSE NoCase]
  /\ user = [s \in Sessions |-> IF s = "A" THEN "u1" ELSE "u2"]
  /\ call = [s \in Sessions |-> NoCall]
  /\ nCalls = 0
  /\ nSwitch = 0
  /\ analyzed = NoHash
  /\ notice = NoNotice

InitGateway ==
  /\ attempt = 0
  /\ log = <<>>
  /\ waits = <<>>
  /\ outcome = Pending

InitEnrich ==
  /\ asked = NoRequest
  /\ answer = NoResult

Init ==
  /\ InitCase
  /\ faults = 0
  /\ InitGateway
  /\ raw = NoRaw
  /\ verdict = NoResult
  /\ InitEnrich

\* ---------------------------------------------------------------- actions
\* what a handler of the case screen leaves alone
rest == <<user, nSwitch, gatewayVars, verdictVars, enrichVars>>

\* FilingForm.handleSubmit (the statement must not be blank)
FilingSubmit(s) ==
  /\ shown(s) /\ local[s].status = DRAFTING /\ isPlaintiff(s)
  /\ updateCase(s, [description |-> DescText, status |-> PLAINTIFF_EVIDENCE])
  /\ notice' = NoNotice
  /\ UNCHANGED <<call, nCalls, analyzed, rest>>

\* EvidenceCreator.onAdd in PlaintiffEvidenceStep: a new, uncontested item
newEvidence(c) ==
  [ id |-> Len(c.evidence) + 1,
    type |-> "TEXT",
    description |-> "ev",
    isContested |-> FALSE,
    submittedBy |-> PLAINTIFF ]

\* onAdd while the initiator holds fewer than max items
addEvidence(s, max) ==
  /\ shown(s) /\ local[s].status = PLAINTIFF_EVIDENCE /\ isPlaintiff(s)
  /\ Len(local[s].evidence) < max
  /\ updateCase(s, [evidence |-> Append(local[s].evidence, newEvidence(local[s]))])
  /\ notice' = NoNotice
  /\ UNCHANGED <<call, nCalls, analyzed, rest>>

AddEvidence(s) == addEvidence(s, MaxEvidence)

\* PlaintiffEvidenceStep: "submit to the defendant"
SubmitEvidence(s) ==
  /\ shown(s) /\ local[s].status = PLAINTIFF_EVIDENCE /\ isPlaintiff(s)
  /\ updateCase(s, [status |-> DEFENSE_PENDING])
  /\ notice' = NoNotice
  /\ UNCHANGED <<call, nCalls, analyzed, rest>>

\* the validation without the check of the initiator
joinRejectedIfBound(row, u) ==
  \/ row = NoRow
  \/ (row.defendant_id # NoUser /\ row.defendant_id # u)

\* MockDb.joinCase: the validation of the joiner against the row read
joinRejected(row, u) ==
  \/ row = NoRow
  \/ row.plaintiff_id = u
  \/ (row.defendant_id # NoUser /\ row.defendant_id # u)

\* MockDb.joinCase: the row is read by share code, defendant_id is written if
\* it was not set, and the row becomes the local case of the joiner; nothing
\* changes when the read fails, the joiner is rejected or the write fails.
JoinCase(s) ==
  /\ \/ UNCHANGED <<remote, local>>
     \/ /\ ~joinRejected(remote, user[s])
        /\ remote' = IF remote.defendant_id # NoUser THEN remote
                     ELSE updateRow(remote, [defendant_id |-> user[s]])
        /\ local' = [local EXCEPT ![s] = fromRow([remote EXCEPT !.defendant_id = user[s]])]
  /\ notice' = NoNotice
  /\ UNCHANGED <<call, nCalls, faults, analyzed, rest>>

\* "switch account" in the header: the case screen stays open for the next user
SwitchUser(s) ==
  /\ nSwitch < MaxSwitches
  /\ nSwitch' = nSwitch + 1
  /\ \E u \in Users \ {user[s]} : user' = [user EXCEPT ![s] = u]
  /\ notice' = NoNotice
  /\ UNCHANGED <<remote, local, call, nCalls, faults, analyzed, gatewayVars, verdictVars, enrichVars>>

\* DefenseStep.handleSubmit (the defence must not be blank): the defence and
\* the next stage in one patch, then the summary of the defence in a second
\* patch once summarizeStatement has returned (it never throws).  The summary
\* arrives before any other step.
DefenseSubmit(s) ==
  /\ shown(s) /\ local[s].status = DEFENSE_PENDING /\ isDefendant(s)
  /\ updateCase(s, [defenseStatement |-> DefenseText, status |-> CROSS_EXAMINATION,
                    defenseSummary |-> SummaryText])
  /\ notice' = NoNotice
  /\ UNCHANGED <<call, nCalls, analyzed, rest>>

\* a default judgment that closes the case without a verdict generation
defaultJudgmentCloses ==
  [ defenseStatement |-> AbsentStatement,
    defenseSummary |-> AbsentSummary,
    status |-> CLOSED,
    disputePoints |-> <<>> ]

\* the patch of CaseManager.handleDefaultJudgment
defaultJudgmentPatch ==
  [ defenseStatement |-> AbsentStatement,
    defenseSummary |-> AbsentSummary,
    status |-> ADJUDICATING,
    disputePoints |-> <<>> ]

\* CaseManager.handleDefaultJudgment behind the button of the DEFENSE_PENDING
\* waiting view, which only the initiator sees
DefaultJudgment(s) ==
  /\ shown(s) /\ local[s].status = DEFENSE_PENDING
  /\ ~isDefendant(s) /\ isPlaintiff(s)
  /\ updateCase(s, defaultJudgmentPatch)
  /\ notice' = NoNotice
  /\ UNCHANGED <<call, nCalls, analyzed, rest>>

\* VerdictSection.renderMyRebuttal: each side edits its own rebuttal
EditRebuttal(s) ==
  /\ shown(s) /\ local[s].status = CROSS_EXAMINATION
  /\ call[s].kind # "dispute"
  /\ \E val \in RebuttalTexts :
       \/ isPlaintiff(s) /\ val # local[s].plaintiffRebuttal
          /\ updateCase(s, [plaintiffRebuttal |-> val])
       \/ isDefendant(s) /\ val # local[s].defendantRebuttal
          /\ updateCase(s, [defendantRebuttal |-> val])
  /\ notice' = NoNotice
  /\ UNCHANGED <<call, nCalls, analyzed, rest>>

\* a finish of the cross-examination that never reuses the stored points
canSkipNever(c) == FALSE

\* handleFinishCrossExam takes the skip path
canSkipAnalysis(c) ==
  /\ Len(c.disputePoints) > 0
  /\ c.lastAnalyzedHash = computeContentHash(c)

\* VerdictSection.handleFinishCrossExam up to the inference call; the button
\* is rendered for every role
FinishCrossExam(s) ==
  /\ shown(s) /\ local[s].status = CROSS_EXAMINATION
  /\ call[s] = NoCall
  /\ IF canSkipAnalysis(local[s])
     THEN /\ updateCase(s, [status |-> DEBATE])
          /\ UNCHANGED <<call, nCalls>>
     ELSE /\ nCalls < MaxCalls
          /\ nCalls' = nCalls + 1
          /\ call' = [call EXCEPT ![s] =
                        [kind |-> "dispute",
                         hash |-> computeContentHash(local[s]),
                         defense |-> local[s].defenseStatement]]
          /\ UNCHANGED <<remote, local, faults>>
  /\ notice' = NoNotice
  /\ UNCHANGED <<analyzed, rest>>

\* analyzeDisputeFocus: n points returned by the model, each given an id
disputePointsOf(n) ==
  [i \in 1..n |-> [id |-> i, plaintiffArg |-> "", defendantArg |-> ""]]

\* the patch handleFinishCrossExam submits after analyzeDisputeFocus returned
disputePatch(points, hash) ==
  [status |-> DEBATE, disputePoints |-> points, lastAnalyzedHash |-> hash]

\* handleFinishCrossExam after analyzeDisputeFocus returned n points, n one of
\* counts
disputeDone(s, counts) ==
  /\ call[s].kind = "dispute"
  /\ call' = [call EXCEPT ![s] = NoCall]
  /\ IF local[s] = NoCase
     THEN UNCHANGED <<remote, local, faults, analyzed>>
     ELSE /\ \E n \in counts :
               updateCase(s, disputePatch(disputePointsOf(n), call[s].hash))
          /\ analyzed' = call[s].hash
  /\ notice' = NoNotice
  /\ UNCHANGED <<nCalls, rest>>

DisputeDone(s) == disputeDone(s, 0..MaxPoints)

\* the failure handler advancing the stage all the same
disputeFailedAdvances(s) == updateCase(s, [status |-> DEBATE])

\* what the catch block of handleFinishCrossExam does to the case
disputeFailed(s) == UNCHANGED <<remote, local, faults>>

\* handleFinishCrossExam when analyzeDisputeFocus throws: the message is shown
DisputeFail(s) ==
  /\ call[s].kind = "dispute"
  /\ call' = [call EXCEPT ![s] = NoCall]
  /\ disputeFailed(s)
  /\ notice' = <<s, "dispute_failed">>
  /\ UNCHANGED <<nCalls, analyzed, rest>>

\* DisputeDebateStep: "end of debate, request the verdict", rendered for every role
ProceedToVerdict(s) ==
  /\ shown(s) /\ local[s].status = DEBATE
  /\ updateCase(s, [status |-> ADJUDICATING])
  /\ notice' = NoNotice
  /\ UNCHANGED <<call, nCalls, analyzed, rest>>

\* the defence summary passed in place of the defence statement
judgementDefenseSummary(c) == c.defenseSummary

\* the defence text AdjudicationStep.handleJudgement passes to generateVerdict
judgementDefense(c) == c.defenseStatement

\* AdjudicationStep is rendered with its button: ADJUDICATING, a participant,
\* no generation running
canJudge(s) ==
  /\ shown(s) /\ local[s].status = ADJUDICATING
  /\ isPlaintiff(s) \/ isDefendant(s)
  /\ call[s] = NoCall

\* AdjudicationStep.handleJudgement up to the inference call
StartJudgement(s) ==
  /\ canJudge(s)
  /\ nCalls < MaxCalls
  /\ nCalls' = nCalls + 1
  /\ call' = [call EXCEPT ![s] =
                [kind |-> "verdict", hash |-> NoHash,
                 defense |-> judgementDefense(local[s])]]
  /\ notice' = NoNotice
  /\ UNCHANGED <<remote, local, faults, analyzed, rest>>

\* a verdict result that is dropped when the remote row already holds a verdict
JudgementDoneOnce(s) ==
  /\ call[s].kind = "verdict"
  /\ call' = [call EXCEPT ![s] = NoCall]
  /\ IF local[s] = NoCase \/ (remote # NoRow /\ remote.verdict # NoVerdict)
     THEN UNCHANGED <<remote, local, faults>>
     ELSE updateCase(s, [verdict |-> <<[defense |-> call[s].defense]>>, status |-> CLOSED])
  /\ notice' = NoNotice
  /\ UNCHANGED <<nCalls, analyzed, rest>>

\* handleJudgement after generateVerdict returned
JudgementDone(s) ==
  /\ call[s].kind = "verdict"
  /\ call' = [call EXCEPT ![s] = NoCall]
  /\ IF local[s] = NoCase
     THEN UNCHANGED <<remote, local, faults>>
     ELSE updateCase(s, [verdict |-> <<[defense |-> call[s].defense]>>, status |-> CLOSED])
  /\ notice' = NoNotice
  /\ UNCHANGED <<nCalls, analyzed, rest>>

\* the failure handler closing the case all the same
judgementFailedCloses(s) == updateCase(s, [status |-> CLOSED])

\* what handleJudgement's catch block does to the case
judgementFailed(s) == UNCHANGED <<remote, local, faults>>

\* handleJudgement when generateVerdict throws (the gateway gave up, or the
\* output did not parse): an alert, nothing is submitted
JudgementFail(s) ==
  /\ call[s].kind = "verdict"
  /\ call' = [call EXCEPT ![s] = NoCall]
  /\ judgementFailed(s)
  /\ notice' = <<s, "verdict_failed">>
  /\ UNCHANGED <<nCalls, analyzed, rest>>

\* the patch of VerdictView.onAppeal in CaseManager's CLOSED branch
appealPatch(c) ==
  IF c.defenseStatement = AbsentStatement
  THEN [status |-> DEFENSE_PENDING, defenseStatement |-> "", defenseSummary |-> Undefined]
  ELSE [status |-> DEBATE]

Appeal(s) ==
  /\ shown(s) /\ local[s].status = CLOSED
  /\ updateCase(s, appealPatch(local[s]))
  /\ notice' = NoNotice
  /\ UNCHANGED <<call, nCalls, analyzed, rest>>

\* CaseManager.handleStepBack: the patch it submits, or no patch (onBack)
NoPatch == [none |-> TRUE]
\* a step back that leaves ADJUDICATING for DEBATE whatever the defence is
stepBackPatchToDebate(c, r) ==
  IF c.status = DRAFTING THEN NoPatch
  ELSE IF r = PLAINTIFF /\ c.status = PLAINTIFF_EVIDENCE THEN [status |-> DRAFTING]
  ELSE IF c.status = DEFENSE_PENDING
       THEN IF r = PLAINTIFF THEN [status |-> PLAINTIFF_EVIDENCE] ELSE NoPatch
  ELSE IF c.status = CROSS_EXAMINATION THEN [status |-> DEFENSE_PENDING]
  ELSE IF c.status = DEBATE THEN [status |-> CROSS_EXAMINATION]
  ELSE IF c.status = ADJUDICATING THEN [status |-> DEBATE]
  ELSE NoPatch

stepBackPatch(c, r) ==
  IF c.status = DRAFTING THEN NoPatch
  ELSE IF r = PLAINTIFF /\ c.status = PLAINTIFF_EVIDENCE THEN [status |-> DRAFTING]
  ELSE IF c.status = DEFENSE_PENDING
       THEN IF r = PLAINTIFF THEN [status |-> PLAINTIFF_EVIDENCE] ELSE NoPatch
  ELSE IF c.status = CROSS_EXAMINATION THEN [status |-> DEFENSE_PENDING]
  ELSE IF c.status = DEBATE THEN [status |-> CROSS_EXAMINATION]
  ELSE IF c.status = ADJUDICATING
       THEN IF c.defenseStatement = AbsentStatement
            THEN [status |-> DEFENSE_PENDING, defenseStatement |-> "",
                  defenseSummary |-> Undefined]
            ELSE [status |-> DEBATE]
  ELSE NoPatch

StepBack(s) ==
  /\ shown(s)
  /\ stepBackPatch(local[s], role(s)) # NoPatch
  /\ updateCase(s, stepBackPatch(local[s], role(s)))
  /\ notice' = NoNotice
  /\ UNCHANGED <<call, nCalls, analyzed, rest>>

\* CaseManager.confirmDelete -> MockDb.deleteCase: the local entry is removed
DeleteCase(s) ==
  /\ shown(s) /\ isPlaintiff(s)
  /\ local' = [local EXCEPT ![s] = NoCase]
  /\ notice' = NoNotice
  /\ UNCHANGED <<remote, call, nCalls, faults, analyzed, rest>>

\* the guard with the comparison off by one level
staleRemoteOffByOne(c, row) ==
  /\ c # NoCase
  /\ statusOrder(c.status) > statusOrder(row.status) + 1
  /\ row.status = CROSS_EXAMINATION

\* the local case is kept whenever it is ahead of the row
staleRemoteWheneverAhead(c, row) ==
  /\ c # NoCase
  /\ statusOrder(c.status) > statusOrder(row.status)

\* the conflict resolution of syncCaseFromCloud: the remote row is ignored
staleRemote(c, row) ==
  /\ c # NoCase
  /\ statusOrder(c.status) > statusOrder(row.status)
  /\ row.status = CROSS_EXAMINATION

\* MockDb.syncCaseFromCloud: what the local case becomes when a row was read
syncResult(c, row) ==
  IF staleRemote(c, row) THEN c ELSE fromRow(row)

\* the polling read of an open case: the read fails or finds no row and the
\* local case stays, or the row read is reconciled with the local case
SyncCaseFromCloud(s) ==
  /\ shown(s)
  /\ \/ UNCHANGED local /\ notice' = NoNotice
     \/ /\ remote # NoRow
        /\ local' = [local EXCEPT ![s] = syncResult(local[s], remote)]
        /\ notice' = IF staleRemote(local[s], remote) THEN <<s, "sync_stale">>
                     ELSE NoNotice
  /\ UNCHANGED <<remote, call, nCalls, faults, analyzed, rest>>

\* ------------------------------------------------------------------ gateway
\* retryWithBackoff: error.status || error.code, replaced by the code parsed
\* from a JSON message
statusOf(e) == IF e.code # 0 THEN e.code ELSE e.status

\* status 500 no longer counted as transient
isTransientWithout500(e) ==
  \/ statusOf(e) = 503
  \/ statusOf(e) = 429
  \/ "overloaded" \in e.message
  \/ "timeout" \in e.message
  \/ "timed out" \in e.message
  \/ "Resource exhausted" \in e.message
  \/ "429" \in e.message

\* retryWithBackoff: isTransient
isTransient(e) ==
  \/ statusOf(e) = 503
  \/ statusOf(e) = 429
  \/ statusOf(e) = 500
  \/ "overloaded" \in e.message
  \/ "timeout" \in e.message
  \/ "timed out" \in e.message
  \/ "Resource exhausted" \in e.message
  \/ "429" \in e.message

\* retryWithBackoff: isTransient && i < retries - 1
willRetry(e, i) == isTransient(e) /\ i < retries - 1

\* a delay that grows by initialDelay with every attempt
waitTimeLinear(i) == initialDelay * (i + 1)

\* retryWithBackoff: initialDelay * Math.pow(2, i)
waitTime(i) == initialDelay * 2^i

\* callGemini: the message of the error thrown in place of the gateway error
gatewayMessage(e) ==
  IF "429" \in e.message \/ e.status = 429 \/ "Resource exhausted" \in e.message
  THEN RateLimited
  ELSE IF "timed out" \in e.message THEN TimedOut
  ELSE Adjourned

\* response.text || ""
textOf(r) == IF r.text = Undefined THEN "" ELSE r.text

\* an attempt of the operation returns: callGemini returns its text
AttemptReturns ==
  /\ outcome = Pending /\ attempt < retries
  /\ \E text \in ResponseTexts :
       /\ log' = Append(log, response(text))
       /\ outcome' = Returned(textOf(response(text)))
  /\ UNCHANGED <<attempt, waits, caseVars, verdictVars, enrichVars>>

\* an attempt throws a transient error before the last attempt: wait, go on
AttemptRetried ==
  /\ outcome = Pending /\ attempt < retries
  /\ \E e \in Errors :
       /\ willRetry(e, attempt)
       /\ log' = Append(log, e)
  /\ waits' = Append(waits, waitTime(attempt))
  /\ attempt' = attempt + 1
  /\ UNCHANGED <<outcome, caseVars, verdictVars, enrichVars>>

\* an attempt throws any other error, or the last attempt throws: the error
\* leaves retryWithBackoff and callGemini throws its message
AttemptThrown ==
  /\ outcome = Pending /\ attempt < retries
  /\ \E e \in Errors :
       /\ ~willRetry(e, attempt)
       /\ log' = Append(log, e)
       /\ outcome' = Thrown(gatewayMessage(e))
  /\ UNCHANGED <<attempt, waits, caseVars, verdictVars, enrichVars>>

\* ------------------------------------------------------- verdict validation
DigitChars == <<"0", "1", "2", "3", "4", "5", "6", "7", "8", "9">>
isDigit(ch) == \E i \in DOMAIN DigitChars : DigitChars[i] = ch
digitValue(ch) == (CHOOSE i \in DOMAIN DigitChars : DigitChars[i] = ch) - 1

\* val.replace(/[^0-9.]/g, '')
keepChar(ch) == isDigit(ch) \/ ch = "."
strip(s) == SelectSeq(s, keepChar)

RECURSIVE digitsLen(_)
digitsLen(s) ==
  IF s = <<>> \/ ~isDigit(Head(s)) THEN 0 ELSE 1 + digitsLen(Tail(s))

RECURSIVE toNat(_)
toNat(s) ==
  IF s = <<>> THEN 0
  ELSE 10 * toNat(SubSeq(s, 1, Len(s) - 1)) + digitValue(s[Len(s)])

\* the first two decimals of a digit string, in hundredths
hundredths(f) ==
  (IF Len(f) >= 1 THEN 10 * digitValue(f[1]) ELSE 0)
  + (IF Len(f) >= 2 THEN digitValue(f[2]) ELSE 0)

NaN == [nan |-> TRUE, num |-> 0]
Num(n) == [nan |-> FALSE, num |-> n]

\* parseFloat of a string of digits and points: the longest leading decimal
\* literal, NaN when it has no digit
parseFloat(s) ==
  LET k == digitsLen(s)
      after == SubSeq(s, k + 1, Len(s))
      frac == IF after # <<>> /\ Head(after) = "."
              THEN SubSeq(Tail(after), 1, digitsLen(Tail(after)))
              ELSE <<>>
  IN IF k = 0 /\ frac = <<>> THEN NaN
     ELSE Num(100 * toNat(SubSeq(s, 1, k)) + hundredths(frac))

\* generateVerdict: clean
clean(val) ==
  IF val.type = "number" THEN Num(val.num)
  ELSE IF val.type = "string" THEN parseFloat(strip(val.str))
  ELSE Num(0)

\* if (isNaN(p)) p = 50
orFifty(x) == IF x.nan THEN 50 * 100 ELSE x.num

abs(x) == IF x < 0 THEN -x ELSE x

\* Math.round(x / y) for y > 0: halves go up
round(x, y) == (2 * x + y) \div (2 * y)

Split(p, d) == [plaintiff |-> p, defendant |-> d]

\* generateVerdict: the responsibilitySplit written back (in hundredths)
sanitizeSplit(split) ==
  IF split = NoSplit THEN Split(50 * 100, 50 * 100)
  ELSE LET p == orFifty(clean(split.plaintiff))
           d == orFifty(clean(split.defendant))
           total == p + d
       IN IF total > 0 /\ abs(total - 100 * 100) > 1 * 100
          THEN Split(100 * round(100 * p, total), 100 * (100 - round(100 * p, total)))
          ELSE IF total = 0 THEN Split(50 * 100, 50 * 100)
          ELSE Split(p, d)

\* a text is a sequence of words; text.includes(words)
includes(text, words) ==
  \E i \in 0..(Len(text) - Len(words)) : SubSeq(text, i + 1, i + Len(words)) = words

\* toUpperCase of the words an assignee is written with
upper(word) ==
  CASE word = "plaintiff" -> "PLAINTIFF"
    [] word = "defendant" -> "DEFENDANT"
    [] OTHER -> word
toUpperCase(text) == [i \in DOMAIN text |-> upper(text[i])]

\* the words of the prompt language for "plaintiff" and "defendant does"
PlaintiffWord == <<"yuangao">>
DefendantDoes == <<"beigao", "zuo">>

\* a penalty task of the model: a bare string, or an object with these keys
\* (a key that is missing or empty is the empty text)
StringTask(text) ==
  [shape |-> "string", assignee |-> <<>>, content |-> text, description |-> <<>>, task |-> <<>>]
ObjectTask(assignee, content, description, task) ==
  [shape |-> "object", assignee |-> assignee, content |-> content,
   description |-> description, task |-> task]

\* JSON.stringify of an object task whose content, description and task are empty
stringify(t) == <<"{", "assignee">> \o t.assignee \o <<"}">>

\* t.description || t.task || t.content || JSON.stringify(t)
looseContent(t) ==
  IF t.description # <<>> THEN t.description
  ELSE IF t.task # <<>> THEN t.task
  ELSE IF t.content # <<>> THEN t.content
  ELSE stringify(t)

\* the loser taken to be the side with the smaller share
loserSwapped(split) == IF split.defendant > split.plaintiff THEN PLAINTIFF ELSE DEFENDANT

\* generateVerdict: the loser of the case by the split written back
loser(split) == IF split.defendant > split.plaintiff THEN DEFENDANT ELSE PLAINTIFF

\* generateVerdict: one element of penaltyTasks.map
sanitizeTask(t, split) ==
  IF t.shape = "object" /\ t.assignee # <<>> /\ t.content # <<>>
  THEN [assignee |-> IF includes(toUpperCase(t.assignee), <<"PLAINTIFF">>)
                     THEN PLAINTIFF ELSE DEFENDANT,
        content |-> t.content]
  ELSE IF t.shape = "object"
  THEN [assignee |-> IF includes(looseContent(t), PlaintiffWord)
                        /\ ~includes(looseContent(t), DefendantDoes)
                     THEN PLAINTIFF ELSE DEFENDANT,
        content |-> looseContent(t)]
  ELSE [assignee |-> loser(split), content |-> t.content]

\* generateVerdict after JSON.parse: the verdict returned
sanitize(parsed) ==
  LET split == sanitizeSplit(parsed.responsibilitySplit)
  IN [responsibilitySplit |-> split,
      penaltyTasks |-> IF parsed.hasTasks
                       THEN [i \in DOMAIN parsed.penaltyTasks |->
                               sanitizeTask(parsed.penaltyTasks[i], split)]
                       ELSE <<>>]

\* the model outputs validated
ShareChars == {"6", "0", ".", "-"}
ShareStrings == UNION {[1..n -> ShareChars] : n \in 0..MaxLen}
ShareNumbers == {-70, -30, 0, 39, 40, 50, 60, 61, 100}
ShareValues ==
  {Number(n) : n \in ShareNumbers} \cup {String(s) : s \in ShareStrings} \cup {Other}
RawSplits ==
  {NoSplit} \cup {Split(p, d) : p \in ShareValues, d \in ShareValues}
RawTasks ==
  { StringTask(<<"dishes">>),
    ObjectTask(<<"plaintiff">>, <<"dishes">>, <<>>, <<>>),
    ObjectTask(<<"DEFENDANT">>, <<"dishes">>, <<>>, <<>>),
    ObjectTask(<<>>, <<>>, <<"yuangao", "dishes">>, <<>>),
    ObjectTask(<<>>, <<>>, <<>>, <<"yuangao", "beigao", "zuo">>),
    ObjectTask(<<"yuangao">>, <<>>, <<>>, <<>>),
    ObjectTask(<<>>, <<>>, <<>>, <<"dishes">>),
    ObjectTask(<<>>, <<"dishes">>, <<>>, <<>>) }
RawTaskLists == {<<>>} \cup {<<t>> : t \in RawTasks}
\* the parsed output: penaltyTasks may be missing (hasTasks false)
RawOutput(sp, hasTasks, ts) ==
  [responsibilitySplit |-> sp, hasTasks |-> hasTasks, penaltyTasks |-> ts]

\* generateVerdict from the parsed output to the value returned
GenerateVerdict ==
  /\ raw # NoRaw /\ verdict = NoResult
  /\ verdict' = sanitize(raw)
  /\ UNCHANGED <<raw, caseVars, gatewayVars, enrichVars>>

\* ----------------------------------------------------------- specifications
\* the workflow of the two sessions as the case screen drives it: a session
\* reads its local store, the remote row reaches it through joinCase only
Next ==
  \E s \in Sessions :
    \/ FilingSubmit(s)
    \/ SubmitEvidence(s)
    \/ JoinCase(s)
    \/ DefenseSubmit(s)
    \/ DefaultJudgment(s)
    \/ FinishCrossExam(s)
    \/ DisputeDone(s)
    \/ DisputeFail(s)
    \/ ProceedToVerdict(s)
    \/ StartJudgement(s)
    \/ JudgementDone(s)
    \/ JudgementFail(s)
    \/ Appeal(s)
    \/ StepBack(s)

Spec == Init /\ [][Next]_vars

\* the workflow of a defended case with the sessions polling the remote row
\* through syncCaseFromCloud, and the deletion of the local case
NextSync ==
  \E s \in Sessions :
    \/ FilingSubmit(s)
    \/ SubmitEvidence(s)
    \/ JoinCase(s)
    \/ DefenseSubmit(s)
    \/ FinishCrossExam(s)
    \/ DisputeDone(s)
    \/ DisputeFail(s)
    \/ ProceedToVerdict(s)
    \/ StartJudgement(s)
    \/ JudgementDone(s)
    \/ JudgementFail(s)
    \/ Appeal(s)
    \/ StepBack(s)
    \/ DeleteCase(s)
    \/ SyncCaseFromCloud(s)

SpecSync == Init /\ [][NextSync]_vars

\* the workflow up to DEBATE, with the edits that change the fingerprint
NextContent ==
  \E s \in Sessions :
    \/ FilingSubmit(s)
    \/ AddEvidence(s)
    \/ SubmitEvidence(s)
    \/ JoinCase(s)
    \/ DefenseSubmit(s)
    \/ EditRebuttal(s)
    \/ FinishCrossExam(s)
    \/ DisputeDone(s)
    \/ DisputeFail(s)
    \/ StepBack(s)

SpecContent == Init /\ [][NextContent]_vars

\* the workflow of a defended case with an account switch in a session
NextSpectator ==
  \E s \in Sessions :
    \/ FilingSubmit(s)
    \/ SubmitEvidence(s)
    \/ JoinCase(s)
    \/ SwitchUser(s)
    \/ DefenseSubmit(s)
    \/ FinishCrossExam(s)
    \/ DisputeDone(s)
    \/ DisputeFail(s)
    \/ ProceedToVerdict(s)
    \/ StartJudgement(s)
    \/ JudgementDone(s)
    \/ JudgementFail(s)
    \/ Appeal(s)
    \/ StepBack(s)
    \/ SyncCaseFromCloud(s)

SpecSpectator == Init /\ [][NextSpectator]_vars

\* the polled workflow with remote writes that fail
InitFaulty ==
  /\ InitCase
  /\ faults = MaxFailures
  /\ InitGateway
  /\ raw = NoRaw
  /\ verdict = NoResult
  /\ InitEnrich

SpecFaulty == InitFaulty /\ [][NextSync]_vars

\* one gateway call
NextRetry == AttemptReturns \/ AttemptRetried \/ AttemptThrown

SpecRetry == Init /\ [][NextRetry]_vars

\* the validation of one model output
InitVerdict ==
  /\ InitCase
  /\ faults = 0
  /\ InitGateway
  /\ \E sp \in RawSplits, ts \in RawTaskLists, hasTasks \in BOOLEAN :
       /\ (hasTasks \/ ts = <<>>)
       /\ raw = RawOutput(sp, hasTasks, ts)
  /\ verdict = NoResult
  /\ InitEnrich

NextVerdict == GenerateVerdict

SpecVerdict == InitVerdict /\ [][NextVerdict]_vars

\* --------------------------------------------------------------- properties
\* C1: in every reachable state the case a session holds is in stage CLOSED
\* if and only if it holds a verdict.
C1_ClosedIffVerdict ==
  \A s \in Sessions :
    shown(s) => (local[s].status = CLOSED <=> local[s].verdict # NoVerdict)

\* the role the stage's advancing action is reserved for
designated(st, r) ==
  CASE st \in {DRAFTING, PLAINTIFF_EVIDENCE} -> r = PLAINTIFF
    [] st = DEFENSE_PENDING -> r = DEFENDANT
    [] st \in {CROSS_EXAMINATION, DEBATE, ADJUDICATING} -> r \in {PLAINTIFF, DEFENDANT}
    [] OTHER -> FALSE

\* the advancing submissions of the stages
advancing(s) ==
  \/ FilingSubmit(s)
  \/ SubmitEvidence(s)
  \/ DefenseSubmit(s)
  \/ FinishCrossExam(s)
  \/ ProceedToVerdict(s)
  \/ StartJudgement(s)

\* C2: when the actor of an advancing submission does not hold the role
\* designated for the stage (a spectator never does), the submission leaves
\* the stage and the content of the case unchanged, locally and remotely.
C2_RoleGating ==
  [][\A s \in Sessions :
       (shown(s) /\ ~designated(local[s].status, role(s)) /\ advancing(s))
         => (local' = local /\ remote' = remote)]_vars

\* the local stage is DEBATE or later
debateOrLater(c) == c.status \in {DEBATE, ADJUDICATING, CLOSED}

C4_SplitSumsTo100 ==
  verdict # NoResult =>
    verdict.responsibilitySplit.plaintiff + verdict.responsibilitySplit.defendant
      = 100 * 100

\* C5: a finish of cross-examination on content identical to the content of
\* the last successful extraction, with dispute points stored, starts no
\* inference call, moves the case to DEBATE and keeps the stored points.
C5_FingerprintIdempotence ==
  [][\A s \in Sessions :
       (/\ shown(s) /\ local[s].status = CROSS_EXAMINATION
        /\ Len(local[s].disputePoints) > 0
        /\ analyzed = computeContentHash(local[s])
        /\ FinishCrossExam(s))
         => (/\ nCalls' = nCalls
             /\ local'[s].status = DEBATE
             /\ local'[s].disputePoints = local[s].disputePoints)]_vars

\* C6: the default-judgment step takes the case from DEFENSE_PENDING to
\* ADJUDICATING and writes the absence texts as defence statement and
\* summary in the same step, and a verdict generation started on a case with
\* the absence statement receives that statement as its defence input.
C6_DefaultJudgment ==
  [][\A s \in Sessions :
       /\ (shown(s) /\ DefaultJudgment(s))
            => (/\ local[s].status = DEFENSE_PENDING
                /\ local'[s].status = ADJUDICATING
                /\ local'[s].defenseStatement = AbsentStatement
                /\ local'[s].defenseSummary = AbsentSummary)
       /\ (shown(s) /\ local[s].defenseStatement = AbsentStatement /\ StartJudgement(s))
            => call'[s].defense = AbsentStatement]_vars

\* a verdict generation runs on a default judgment with no respondent bound
C6_Witness ==
  \E s \in Sessions :
    /\ shown(s) /\ local[s].status = ADJUDICATING
    /\ local[s].defendantId = NoUser
    /\ local[s].defenseSummary = AbsentSummary
    /\ call[s].kind = "verdict" /\ call[s].defense = AbsentStatement

\* the first two replies of the backend are failures with a transient status
twoTransientFailures ==
  /\ Len(log) >= 2
  /\ \A i \in 1..2 : ~log[i].ok /\ log[i].status \in {503, 429, 500}

\* C7: a gateway call whose first two attempts fail with status 503, 429 or
\* 500 is still running after them, and when its third attempt succeeds it
\* returns the text of that attempt and throws nothing.
C7_RetryThenSuccess ==
  twoTransientFailures =>
    /\ Len(log) = 2 => (outcome = Pending /\ attempt = 2)
    /\ (Len(log) = 3 /\ log[3].ok) => outcome = Returned(textOf(log[3]))

\* two failures with a transient status, then a response that is returned
C7_Witness ==
  /\ twoTransientFailures
  /\ Len(log) = 3 /\ log[3].ok /\ log[3].text # Undefined
  /\ log[1].status = 503 /\ log[2].status = 500
  /\ outcome.state = "returned" /\ outcome.value = log[3].text
  /\ waits = <<initialDelay, 2 * initialDelay>>

\* C8: a penalty task returned as a bare string is assigned to the side whose
\* share in the split of the returned verdict is the larger one.
C8_StringTaskToLoser ==
  verdict # NoResult =>
    \A i \in DOMAIN raw.penaltyTasks :
      raw.penaltyTasks[i].shape = "string" =>
        LET split == verdict.responsibilitySplit
            assignee == verdict.penaltyTasks[i].assignee
        IN /\ split.defendant > split.plaintiff => assignee = DEFENDANT
           /\ split.plaintiff > split.defendant => assignee = PLAINTIFF

\* a bare string task went to the defendant on a split that was renormalized
C8_Witness ==
  /\ verdict # NoResult
  /\ raw.hasTasks /\ Len(raw.penaltyTasks) = 1
  /\ raw.penaltyTasks[1].shape = "string"
  /\ verdict.penaltyTasks[1].assignee = DEFENDANT
  /\ raw.responsibilitySplit = Split(Number(40), Number(100))
  /\ verdict.responsibilitySplit = Split(29 * 100, 71 * 100)

\* C9: a failed verdict generation changes neither the local cases nor the
\* remote row (no verdict is written, the stage stays ADJUDICATING), shows
\* the failure, and leaves a participant able to start the generation again.
C9_VerdictFailure ==
  [][\A s \in Sessions :
       (call[s].kind = "verdict" /\ JudgementFail(s))
         => (/\ local' = local /\ remote' = remote
             /\ notice' = <<s, "verdict_failed">>
             /\ (shown(s) /\ local[s].status = ADJUDICATING
                   /\ role(s) \in {PLAINTIFF, DEFENDANT}) => canJudge(s)')]_vars

\* a generation has just failed: ADJUDICATING, no verdict, retry possible
C9_Witness ==
  \E s \in Sessions :
    /\ notice = <<s, "verdict_failed">>
    /\ shown(s) /\ local[s].status = ADJUDICATING /\ local[s].verdict = NoVerdict
    /\ canJudge(s) /\ nCalls < MaxCalls

\* C10: a failed dispute extraction changes neither the local cases nor the
\* remote row and shows the error; a finished extraction writes the stage
\* DEBATE, the point set and the fingerprint in one step; and a session's
\* case goes from CROSS_EXAMINATION to DEBATE only by that step, by the
\* fingerprint-match path over a stored non-empty set, or by a copy of the
\* remote row.
C10_DisputeFailure ==
  [][\A s \in Sessions :
       /\ (call[s].kind = "dispute" /\ DisputeFail(s))
            => (/\ local' = local /\ remote' = remote
                /\ notice' = <<s, "dispute_failed">>)
       /\ (shown(s) /\ DisputeDone(s))
            => (/\ local'[s].status = DEBATE
                /\ local'[s].lastAnalyzedHash = call[s].hash
                /\ \E n \in 0..MaxPoints : local'[s].disputePoints = disputePointsOf(n))
       /\ (/\ shown(s) /\ local[s].status = CROSS_EXAMINATION
           /\ local'[s] # NoCase /\ local'[s].status = DEBATE)
            => \/ DisputeDone(s)
               \/ canSkipAnalysis(local[s]) /\ FinishCrossExam(s)
               \/ remote' # NoRow /\ local'[s] = fromRow(remote')]_vars

\* an extraction has just failed: still CROSS_EXAMINATION, retry possible
C10_Witness ==
  \E s \in Sessions :
    /\ notice = <<s, "dispute_failed">>
    /\ shown(s) /\ local[s].status = CROSS_EXAMINATION
    /\ local[s].disputePoints = <<>> /\ local[s].lastAnalyzedHash = NoHash
    /\ call[s] = NoCall /\ nCalls < MaxCalls

\* C11: an appeal by a participant on a CLOSED case leaves the session's case
\* without a verdict, in DEBATE, or after a default judgment in
\* DEFENSE_PENDING with the defence statement and summary cleared.
C11_AppealDiscardsVerdict ==
  [][\A s \in Sessions :
       (shown(s) /\ role(s) \in {PLAINTIFF, DEFENDANT} /\ Appeal(s))
         => /\ local'[s].verdict = NoVerdict
            /\ IF local[s].defenseStatement = AbsentStatement
               THEN /\ local'[s].status = DEFENSE_PENDING
                    /\ local'[s].defenseStatement = ""
                    /\ local'[s].defenseSummary \in {"", Undefined}
               ELSE local'[s].status = DEBATE]_vars

\* position of the stage of a stored case, -1 when there is none
level(c) == IF c = NoCase THEN -1 ELSE statusOrder(c.status)

\* the step is an explicit step back or appeal of some session
explicitReturn == \E s \in Sessions : StepBack(s) \/ Appeal(s)

\* C12: the stage of the remote row never moves down the order except in a
\* step-back or appeal step, and the stage of a session's case moves down
\* only in such a step or by copying the remote row.
C12_StageMonotonic ==
  [][/\ (remote # NoRow /\ level(remote') < level(remote)) => explicitReturn
     /\ \A s \in Sessions :
          (shown(s) /\ local'[s] # NoCase /\ level(local'[s]) < level(local[s]))
            => \/ explicitReturn
               \/ local'[s] = fromRow(remote)]_vars

\* the in-flight extraction case of C12: a finished extraction or verdict
\* generation never lowers the stage of the remote row or of a session's case
C12_CallNeverLowers ==
  [][\A s \in Sessions :
       (DisputeDone(s) \/ JudgementDone(s))
         => /\ level(remote') >= level(remote)
            /\ \A t \in Sessions : level(local'[t]) >= level(local[t])]_vars

\* ------------------------------------------------- joinCase, step by step
\* MockDb.joinCase up to the end of its read: the row found by share code
\* passes the validation and is held while the write is awaited
JoinRead(s) ==
  /\ call[s] = NoCall
  /\ ~joinRejected(remote, user[s])
  /\ call' = [call EXCEPT ![s] = [kind |-> "join", row |-> remote, defendantId |-> user[s]]]
  /\ notice' = NoNotice
  /\ UNCHANGED <<remote, local, nCalls, faults, analyzed, rest>>

\* MockDb.joinCase from its write on: defendant_id is written when the row
\* read had none, and the row read becomes the local case; a failed write
\* ends the call with nothing stored
JoinWrite(s) ==
  /\ call[s].kind = "join"
  /\ call' = [call EXCEPT ![s] = NoCall]
  /\ LET row == call[s].row
         u == call[s].defendantId
     IN \/ /\ row.defendant_id = NoUser
           /\ UNCHANGED <<remote, local>>
        \/ /\ remote' = IF row.defendant_id # NoUser THEN remote
                        ELSE updateRow(remote, [defendant_id |-> u])
           /\ local' = [local EXCEPT ![s] = fromRow([row EXCEPT !.defendant_id = u])]
  /\ notice' = NoNotice
  /\ UNCHANGED <<nCalls, faults, analyzed, rest>>

\* two sessions joining by the same code, one of them after an account switch
NextJoin ==
  \E s \in Sessions :
    \/ FilingSubmit(s)
    \/ SubmitEvidence(s)
    \/ SwitchUser(s)
    \/ JoinRead(s)
    \/ JoinWrite(s)
    \/ DefenseSubmit(s)
    \/ StepBack(s)

SpecJoin == Init /\ [][NextJoin]_vars

\* C13: the initiator of the remote row never changes, and a respondent once
\* set in the remote row is never replaced by another user.
C13_IdentitiesFixed ==
  [][(remote # NoRow /\ remote' # NoRow)
       => /\ remote'.plaintiff_id = remote.plaintiff_id
          /\ (remote.defendant_id # NoUser
                => remote'.defendant_id = remote.defendant_id)]_vars

\* ---------------------------------------- syncCaseFromCloud, step by step
\* MockDb.syncCaseFromCloud up to its read: the local store is read (getDb)
\* before the remote row is awaited
SyncRead(s) ==
  /\ shown(s) /\ call[s] = NoCall
  /\ call' = [call EXCEPT ![s] = [kind |-> "sync", db |-> local[s]]]
  /\ notice' = NoNotice
  /\ UNCHANGED <<remote, local, nCalls, faults, analyzed, rest>>

\* MockDb.syncCaseFromCloud once the read has returned: nothing is stored
\* when the read failed or the guard holds for the case read before the
\* await, otherwise the row is mapped and saved
SyncWrite(s) ==
  /\ call[s].kind = "sync"
  /\ call' = [call EXCEPT ![s] = NoCall]
  /\ \/ UNCHANGED local /\ notice' = NoNotice
     \/ /\ remote # NoRow
        /\ local' = [local EXCEPT ![s] =
                       IF staleRemote(call[s].db, remote) THEN local[s]
                       ELSE fromRow(remote)]
        /\ notice' = IF staleRemote(call[s].db, remote) THEN <<s, "sync_stale">>
                     ELSE NoNotice
  /\ UNCHANGED <<remote, nCalls, faults, analyzed, rest>>

\* a case that its initiator deletes while the session's poll is in flight
NextDelete ==
  \E s \in Sessions :
    \/ FilingSubmit(s)
    \/ SubmitEvidence(s)
    \/ JoinCase(s)
    \/ DefenseSubmit(s)
    \/ StepBack(s)
    \/ DeleteCase(s)
    \/ SyncRead(s)
    \/ SyncWrite(s)

SpecDelete == Init /\ [][NextDelete]_vars

\* C14: the store of the initiator's session holds the case from its
\* creation on, so it is empty only after the initiator deleted the case;
\* once empty it stays empty.
C14_DeletionTerminal ==
  [][\A s \in Sessions :
       (user[s] = "u1" /\ local[s] = NoCase) => local'[s] = NoCase]_vars

\* the verdict patch of a generation that session s started has just been written
closedByVerdict(s) ==
  /\ call[s].kind = "verdict" /\ JudgementDone(s)
  /\ local'[s].verdict = <<[defense |-> call[s].defense]>>

\* C15: the remote row becomes CLOSED only by the verdict patch of a finished
\* generation, a session's case only by that patch or by copying a CLOSED
\* row; and a generation is in flight only after handleJudgement started it
\* as a new call on an ADJUDICATING case.
C15_ClosedOnlyByVerdict ==
  [][/\ (remote # NoRow /\ remote.status # CLOSED /\ remote'.status = CLOSED)
          => \E s \in Sessions :
               closedByVerdict(s) /\ remote'.verdict = local'[s].verdict
     /\ \A s \in Sessions :
          /\ (shown(s) /\ local[s].status # CLOSED
                /\ local'[s] # NoCase /\ local'[s].status = CLOSED)
               => \/ closedByVerdict(s)
                  \/ /\ remote # NoRow /\ remote.status = CLOSED
                     /\ local'[s] = fromRow(remote')
          /\ (call[s].kind # "verdict" /\ call'[s].kind = "verdict")
               => /\ canJudge(s) /\ StartJudgement(s)
                  /\ nCalls' = nCalls + 1]_vars

\* a case closed by the second verdict generation of its history
C15_Witness ==
  \E s \in Sessions :
    /\ shown(s) /\ local[s].status = CLOSED
    /\ local[s].verdict = <<[defense |-> AbsentStatement]>>
    /\ remote # NoRow /\ remote.status = CLOSED /\ remote.verdict = local[s].verdict
    /\ nCalls = MaxCalls /\ call[s] = NoCall

\* ------------------------------------------------------------ debate
\* DisputeDebateStep.handleArgUpdate: the points of the case shown with the
\* text put into the plaintiffArg of the point when the plaintiff types, into
\* its defendantArg otherwise
handleArgUpdate(c, plaintiffTypes, pointId, text) ==
  [j \in DOMAIN c.disputePoints |->
     IF c.disputePoints[j].id = pointId
     THEN IF plaintiffTypes
          THEN [c.disputePoints[j] EXCEPT !.plaintiffArg = text]
          ELSE [c.disputePoints[j] EXCEPT !.defendantArg = text]
     ELSE c.disputePoints[j]]

\* the argument of the side of session s on point j of the case shown
ownArg(s, j) ==
  IF isPlaintiff(s) THEN local[s].disputePoints[j].plaintiffArg
  ELSE local[s].disputePoints[j].defendantArg

\* DisputeDebateStep: a side types into the box of its own argument (the box
\* is rendered for the plaintiff and for the defendant only); the whole list
\* of points is submitted
FillArgument(s) ==
  /\ shown(s) /\ local[s].status = DEBATE
  /\ isPlaintiff(s) \/ isDefendant(s)
  /\ \E j \in DOMAIN local[s].disputePoints, text \in ArgTexts :
       /\ text # ownArg(s, j)
       /\ updateCase(s, [disputePoints |->
            handleArgUpdate(local[s], isPlaintiff(s), local[s].disputePoints[j].id, text)])
  /\ notice' = NoNotice
  /\ UNCHANGED <<call, nCalls, analyzed, rest>>

\* ------------------------------------------------- the complete hearing
\* The hearing of a defended case by two parties on two devices that poll the
\* remote row: each handler is the handler of the workflow, taken when the
\* party has entered what the hearing asks for at that stage.
HearingAddEvidence(s) == addEvidence(s, TraceEvidence)

HearingSubmitEvidence(s) ==
  /\ shown(s) /\ Len(local[s].evidence) = TraceEvidence
  /\ SubmitEvidence(s)

\* each side enters its rebuttal once
HearingRebuttal(s) ==
  /\ shown(s)
  /\ (IF isPlaintiff(s) THEN local[s].plaintiffRebuttal ELSE local[s].defendantRebuttal) = ""
  /\ EditRebuttal(s)

\* the cross-examination is finished once, with both rebuttals on screen
HearingFinishCrossExam(s) ==
  /\ shown(s) /\ nCalls = 0
  /\ local[s].plaintiffRebuttal # "" /\ local[s].defendantRebuttal # ""
  /\ FinishCrossExam(s)

HearingDisputeDone(s) == disputeDone(s, {TracePoints})

\* a side fills an argument it has not filled
HearingArgument(s) ==
  /\ FillArgument(s)
  /\ \A j \in DOMAIN local[s].disputePoints : ownArg(s, j) # "" => local'[s].disputePoints[j] = local[s].disputePoints[j]

allArgued(c) ==
  \A j \in DOMAIN c.disputePoints :
    c.disputePoints[j].plaintiffArg # "" /\ c.disputePoints[j].defendantArg # ""

\* the verdict is requested with every argument on screen
HearingProceed(s) ==
  /\ shown(s) /\ allArgued(local[s])
  /\ ProceedToVerdict(s)

NextHearing ==
  \E s \in Sessions :
    \/ FilingSubmit(s)
    \/ HearingAddEvidence(s)
    \/ HearingSubmitEvidence(s)
    \/ JoinCase(s)
    \/ DefenseSubmit(s)
    \/ HearingRebuttal(s)
    \/ SyncCaseFromCloud(s)
    \/ HearingFinishCrossExam(s)
    \/ HearingDisputeDone(s)
    \/ HearingArgument(s)
    \/ HearingProceed(s)
    \/ StartJudgement(s)
    \/ JudgementDone(s)

SpecHearing == Init /\ [][NextHearing]_vars

\* what the parties submitted in the hearing, as fields of a local case
heard(c) ==
  /\ c.description = DescText
  /\ Len(c.evidence) = TraceEvidence
  /\ c.defenseStatement = DefenseText
  /\ c.plaintiffRebuttal = "rebut" /\ c.defendantRebuttal = "rebut"
  /\ Len(c.disputePoints) = TracePoints /\ allArgued(c)

EnrichOps ==
  {"transcribeAudio", "summarizeStatement", "generateCaseTitle", "polishText",
   "fixGrammar", "analyzeSentiment"}
\* the text (or audio) an operation is called with, shorter than 150 characters
EnrichTexts == {"", "text"}

\* a text as the list of its pieces ("" has none)
piece(v) == IF v = "" THEN <<>> ELSE <<v>>

\* the values of the catch blocks
TranscriptionFailed == "(transcription failed, try again)"
Untitled == "untitled case"
NotToxic == [isToxic |-> FALSE, score |-> 0, reason |-> ""]

\* JSON.parse(cleanJson(res)) of analyzeSentiment: a SyntaxError, or the value
\* the text denotes (the empty text denotes none)
SyntaxError == [syntaxError |-> TRUE]
parses(out) ==
  IF out.state = "returned" /\ out.value # ""
  THEN {SyntaxError, [null |-> TRUE], NotToxic,
        [isToxic |-> TRUE, score |-> 9, reason |-> "calm down"]}
  ELSE {SyntaxError}

\* what the catch block of the operation returns
safeDefault(op, text) ==
  CASE op = "transcribeAudio" -> <<TranscriptionFailed>>
    [] op = "summarizeStatement" -> piece(text) \o <<"...">>
    [] op = "generateCaseTitle" -> <<Untitled>>
    [] op = "analyzeSentiment" -> NotToxic
    [] OTHER -> piece(text)

\* the try block of the operation, given what the backend call came to (out)
\* and, for analyzeSentiment, what JSON.parse made of the text
enrichTry(op, text, out, parsed) ==
  IF out.state = "thrown" THEN out
  ELSE IF op = "analyzeSentiment"
       THEN IF parsed = SyntaxError THEN Thrown("SyntaxError") ELSE Returned(parsed)
       ELSE Returned(piece(out.value))

\* an operation that lets the error of its try block through
enrichRethrows(op, text, out, parsed) == enrichTry(op, text, out, parsed)

\* the operation: try, and in the catch block return the default
enrich(op, text, out, parsed) ==
  IF enrichTry(op, text, out, parsed).state = "thrown"
  THEN Returned(safeDefault(op, text))
  ELSE enrichTry(op, text, out, parsed)

\* the operation goes through callGemini: transcribeAudio calls the backend
\* itself, summarizeStatement returns "" for an empty text without a call
usesGateway(req) ==
  /\ req.op # "transcribeAudio"
  /\ ~(req.op = "summarizeStatement" /\ req.text = "")

\* an attempt of callGemini inside the operation
EnrichAttempt ==
  /\ asked # NoRequest /\ usesGateway(asked) /\ answer = NoResult
  /\ NextRetry

\* the operation returns once callGemini has returned or thrown
EnrichReturns ==
  /\ asked # NoRequest /\ usesGateway(asked) /\ answer = NoResult
  /\ outcome # Pending
  /\ \E parsed \in (IF asked.op = "analyzeSentiment" THEN parses(outcome) ELSE {SyntaxError}) :
       answer' = enrich(asked.op, asked.text, outcome, parsed)
  /\ UNCHANGED <<asked, caseVars, gatewayVars, verdictVars>>

\* summarizeStatement of an empty text
EnrichSkipped ==
  /\ asked # NoRequest /\ answer = NoResult
  /\ asked.op = "summarizeStatement" /\ asked.text = ""
  /\ answer' = Returned(<<>>)
  /\ UNCHANGED <<asked, caseVars, gatewayVars, verdictVars>>

\* transcribeAudio: one call of the backend, no retry
TranscribeAudio ==
  /\ asked # NoRequest /\ answer = NoResult
  /\ asked.op = "transcribeAudio"
  /\ \E reply \in {response(t) : t \in ResponseTexts} \cup Errors :
       /\ log' = <<reply>>
       /\ answer' = enrich(asked.op, asked.text,
                           IF reply.ok THEN Returned(textOf(reply)) ELSE Thrown("error"),
                           SyntaxError)
  /\ UNCHANGED <<asked, caseVars, attempt, waits, outcome, verdictVars>>

InitEnrichCall ==
  /\ InitCase
  /\ faults = 0
  /\ InitGateway
  /\ raw = NoRaw
  /\ verdict = NoResult
  /\ asked \in [op : EnrichOps, text : EnrichTexts]
  /\ answer = NoResult

NextEnrich == EnrichAttempt \/ EnrichReturns \/ EnrichSkipped \/ TranscribeAudio

SpecEnrich == InitEnrichCall /\ [][NextEnrich]_vars

\* the backend call of the operation failed
backendFailed ==
  IF asked.op = "transcribeAudio" THEN ~log[1].ok ELSE outcome.state = "thrown"

\* C17: an enrichment operation always returns to its caller; when the backend
\* failed it returns its default, and analyzeSentiment returns "not toxic"
\* when the backend failed or returned nothing that parses, so the filing form
\* is not stopped by it.
C17_EnrichmentNeverRaises ==
  answer # NoResult =>
    /\ answer.state = "returned"
    /\ backendFailed => answer.value = safeDefault(asked.op, asked.text)
    /\ (asked.op = "analyzeSentiment" /\ (backendFailed \/ outcome = Returned("")))
         => answer.value = NotToxic /\ ~answer.value.isToxic

C17_Witness ==
  /\ asked # NoRequest /\ asked.op = "analyzeSentiment"
  /\ outcome.state = "thrown" /\ Len(log) = retries
  /\ answer = Returned(NotToxic)

\* ------------------------------------------- concurrent writes of two sides
\* the cross-examination and the debate of a defended case on two devices
\* that poll the remote row
NextDebate ==
  \E s \in Sessions :
    \/ FilingSubmit(s)
    \/ SubmitEvidence(s)
    \/ JoinCase(s)
    \/ DefenseSubmit(s)
    \/ EditRebuttal(s)
    \/ SyncCaseFromCloud(s)
    \/ FinishCrossExam(s)
    \/ DisputeDone(s)
    \/ FillArgument(s)

SpecDebate == Init /\ [][NextDebate]_vars

\* the rebuttal column of a side holds what the session of that side shows
rebuttalStored(s) ==
  IF isPlaintiff(s) THEN orEmpty(remote.plaintiff_rebuttal) = local[s].plaintiffRebuttal
  ELSE orEmpty(remote.defendant_rebuttal) = local[s].defendantRebuttal

\* C19: a rebuttal write of one side changes, in the remote row, the rebuttal
\* column of that side and nothing else, whatever the writing session shows
\* of the other side's rebuttal; so after writes of both sides, in any order,
\* the row holds both values: each side's column is what that side's session
\* shows.
C19_RebuttalsMergedFieldwise ==
  /\ [](\A s \in Sessions :
          (shown(s) /\ remote # NoRow /\ (isPlaintiff(s) \/ isDefendant(s)))
            => rebuttalStored(s))
  /\ [][\A s \in Sessions :
          (remote # NoRow /\ EditRebuttal(s))
            => IF isPlaintiff(s)
               THEN remote' = [remote EXCEPT !.plaintiff_rebuttal = local'[s].plaintiffRebuttal]
               ELSE remote' = [remote EXCEPT !.defendant_rebuttal = local'[s].defendantRebuttal]]_vars

C19_Witness ==
  /\ remote # NoRow
  /\ remote.plaintiff_rebuttal = "rebut" /\ remote.defendant_rebuttal = "rebut"
  /\ local["A"] # NoCase /\ local["A"].plaintiffRebuttal = "rebut"
  /\ local["A"].defendantRebuttal = ""
  /\ local["B"] # NoCase /\ local["B"].defendantRebuttal = "rebut"
  /\ local["B"].plaintiffRebuttal = ""

\* the arguments of the other side than that of session s in a list of points
otherArgs(s, points) ==
  [j \in DOMAIN points |->
     IF isPlaintiff(s) THEN points[j].defendantArg ELSE points[j].plaintiffArg]

\* C20: an argument write of one side leaves the arguments of the other side
\* in the remote row as they were.
C20_ArgumentsIndependent ==
  [][\A s \in Sessions :
       (remote # NoRow /\ FillArgument(s))
         => otherArgs(s, remote'.dispute_points) = otherArgs(s, remote.dispute_points)]_vars

\* a failure the retry policy names transient: overloaded, rate-limited,
\* internal error, or the timeout that races the call
namedTransient(e) ==
  /\ ~e.ok
  /\ \/ e.status \in {503, 429, 500} \/ e.code \in {503, 429, 500}
     \/ e.message \cap {"overloaded", "Resource exhausted", "429", "timed out", "timeout"} # {}

\* C18: in one gateway call, the failure of attempt i (from 0) that is
\* transient and not the last of the `retries` attempts is followed by a wait
\* of initialDelay * 2^i and another attempt; the call throws only on a
\* failure that is not transient, made at once with no wait after it, or on
\* the failure of attempt retries - 1; a call whose first failure is not
\* transient has made exactly one attempt and waited for nothing.
C18_RetryPolicy ==
  /\ Len(log) <= retries /\ attempt = Len(waits)
  /\ \A i \in 1..Len(waits) :
       namedTransient(log[i]) /\ waits[i] = initialDelay * 2^(i - 1)
  /\ outcome = Pending => Len(log) = attempt /\ attempt < retries
  /\ outcome.state = "thrown" =>
       /\ Len(log) = attempt + 1 /\ ~log[Len(log)].ok
       /\ namedTransient(log[Len(log)]) => Len(log) = retries
  /\ (log # <<>> /\ ~log[1].ok /\ ~namedTransient(log[1])) =>
       Len(log) = 1 /\ outcome.state = "thrown" /\ waits = <<>>

\* five transient failures, the timeout among them: four waits, then the throw
C18_Witness ==
  /\ Len(log) = retries
  /\ \A i \in 1..retries : namedTransient(log[i])
  /\ log[1].message = {"timed out"} /\ log[retries].status = 500
  /\ waits = <<1000, 2000, 4000, 8000>>
  /\ outcome.state = "thrown"

\* C21: a patch whose remote write fails is shown as a save failure, and the
\* sessions then hold nothing but what the remote row holds.
C21_FailedWriteSurfaced ==
  [][faults' < faults =>
       /\ notice'[2] = "save_failed"
       /\ \A s \in Sessions :
            (local'[s] # NoCase /\ remote' # NoRow) => local'[s] = fromRow(remote')]_vars

\* ------------------------------------------------------------------ polling
\* a poll of session s whose read of the remote row succeeds
PollReads(s) ==
  /\ SyncCaseFromCloud(s)
  /\ remote # NoRow
  /\ local'[s] = syncResult(local[s], remote)
  /\ notice' = IF staleRemote(local[s], remote) THEN <<s, "sync_stale">> ELSE NoNotice

\* the polled workflow in which every open case screen keeps polling and the
\* reads of the row keep succeeding
SpecPoll == Init /\ [][NextSync]_vars /\ \A s \in Sessions : WF_vars(PollReads(s))

Stages ==
  {DRAFTING, PLAINTIFF_EVIDENCE, DEFENSE_PENDING, CROSS_EXAMINATION, DEBATE,
   ADJUDICATING, CLOSED}

\* C22: when the stage of the remote row stays what it has become and a
\* session keeps the case open, polling brings the stage of that session to
\* the stage of the row.
C22_PollingConverges ==
  \A s \in Sessions : \A st \in Stages :
    <>[](remote # NoRow /\ remote.status = st /\ shown(s))
      => <>(shown(s) /\ local[s].status = st)

\* -------------------------------------------------------- default judgment
\* the waiting stage of a case on two devices that poll the remote row
NextDefault ==
  \E s \in Sessions :
    \/ FilingSubmit(s)
    \/ SubmitEvidence(s)
    \/ JoinCase(s)
    \/ DefenseSubmit(s)
    \/ SyncCaseFromCloud(s)
    \/ StepBack(s)
    \/ DefaultJudgment(s)

SpecDefault == Init /\ [][NextDefault]_vars

\* C23: a default judgment is taken by the initiator, in DEFENSE_PENDING, on a
\* case that holds no defence: neither the case shown nor the remote row has
\* a defence statement for the patch to overwrite.
C23_DefaultJudgmentGuarded ==
  [][\A s \in Sessions :
       DefaultJudgment(s)
         => /\ isPlaintiff(s) /\ local[s].status = DEFENSE_PENDING
            /\ local[s].defenseStatement = ""
            /\ remote # NoRow => orEmpty(remote.defense_statement) = ""]_vars

\* the same, for the case shown alone
C23_ShownDefenceKept ==
  [][\A s \in Sessions : DefaultJudgment(s) => local[s].defenseStatement = ""]_vars

\* the stage a step back from stage st leads to (absent: the case was closed
\* by default)
stageBefore(st, absent) ==
  CASE st = PLAINTIFF_EVIDENCE -> DRAFTING
    [] st = DEFENSE_PENDING -> PLAINTIFF_EVIDENCE
    [] st = CROSS_EXAMINATION -> DEFENSE_PENDING
    [] st = DEBATE -> CROSS_EXAMINATION
    [] st = ADJUDICATING -> IF absent THEN DEFENSE_PENDING ELSE DEBATE
    [] OTHER -> st

\* C24: a step back that changes the case moves the case shown to the stage
\* before its stage and changes no other field, except that from ADJUDICATING
\* after a default judgment it goes to DEFENSE_PENDING and the defence
\* statement and summary are reset, in the case shown and in the remote row;
\* in DRAFTING and CLOSED a step back has no patch.
C24_StepBackMapping ==
  [][\A s \in Sessions :
       /\ (shown(s) /\ local[s].status \in {DRAFTING, CLOSED})
            => stepBackPatch(local[s], role(s)) = NoPatch
       /\ StepBack(s) =>
            LET absent == local[s].status = ADJUDICATING
                          /\ local[s].defenseStatement = AbsentStatement
            IN /\ local'[s].status = stageBefore(local[s].status, absent)
               /\ IF absent
                  THEN /\ local'[s] = [local[s] EXCEPT !.status = DEFENSE_PENDING,
                                         !.defenseStatement = "",
                                         !.defenseSummary = Undefined]
                       /\ remote # NoRow =>
                            /\ remote'.defense_statement = ""
                            /\ remote'.defense_summary \in {"", Null}
                  ELSE /\ local'[s] = [local[s] EXCEPT !.status = local'[s].status]
                       /\ remote # NoRow =>
                            remote' = [remote EXCEPT !.status = local'[s].status]]_vars

\* C24 for the case shown: a step back that changes the case moves the case
\* shown to the stage before its stage and changes no other field of it,
\* except that from ADJUDICATING after a default judgment it goes to
\* DEFENSE_PENDING with the defence statement and summary reset; the stage
\* is written to the remote row; in DRAFTING and CLOSED a step back has no
\* patch.
C24_ShownCaseMapping ==
  [][\A s \in Sessions :
       /\ (shown(s) /\ local[s].status \in {DRAFTING, CLOSED})
            => stepBackPatch(local[s], role(s)) = NoPatch
       /\ (local'[s] # local[s] /\ StepBack(s)) =>
            LET absent == local[s].status = ADJUDICATING
                          /\ local[s].defenseStatement = AbsentStatement
            IN /\ local'[s] =
                    IF absent
                    THEN [local[s] EXCEPT !.status = DEFENSE_PENDING,
                                          !.defenseStatement = "",
                                          !.defenseSummary = Undefined]
                    ELSE [local[s] EXCEPT !.status = stageBefore(local[s].status, FALSE)]
               /\ remote # NoRow => remote'.status = local'[s].status]_vars

\* a default judgment has been taken back by a step back from ADJUDICATING:
\* the case shown is in DEFENSE_PENDING again with the defence reset, and no
\* verdict was ever asked for
C24_Witness ==
  \E s \in Sessions :
    /\ shown(s) /\ local[s].status = DEFENSE_PENDING
    /\ local[s].defenseStatement = "" /\ local[s].defenseSummary = Undefined
    /\ local[s].verdict = NoVerdict /\ nCalls = 0
    /\ remote # NoRow /\ remote.status = DEFENSE_PENDING

\* C25: a step back by a session whose user is neither the initiator nor the
\* respondent of the case shown changes no stage, in the case shown or in the
\* remote row.
C25_SpectatorCannotStepBack ==
  [][\A s \in Sessions :
       (shown(s) /\ role(s) = SPECTATOR /\ StepBack(s))
         => /\ local'[s].status = local[s].status
            /\ remote # NoRow => remote'.status = remote.status]_vars

\* -------------------------------------------------------- contested evidence
\* EvidenceCreator.onAdd in DefenseStep: a new, uncontested item of the
\* respondent
AddDefendantEvidence(s) ==
  /\ shown(s) /\ local[s].status = DEFENSE_PENDING /\ isDefendant(s)
  /\ Len(local[s].defendantEvidence) < MaxEvidence
  /\ updateCase(s, [defendantEvidence |->
       Append(local[s].defendantEvidence,
              [ id |-> Len(local[s].defendantEvidence) + 1,
                type |-> "TEXT",
                description |-> "ev",
                isContested |-> FALSE,
                submittedBy |-> DEFENDANT ])])
  /\ notice' = NoNotice
  /\ UNCHANGED <<call, nCalls, analyzed, rest>>

\* a toggle that also rewrites the description of the item
toggleContestRewriting(items, id) ==
  [j \in DOMAIN items |->
     IF items[j].id = id
     THEN [items[j] EXCEPT !.isContested = ~items[j].isContested, !.description = "contested"]
     ELSE items[j]]

\* togglePlaintiffEvidenceContest / toggleDefendantEvidenceContest: the list
\* with the flag of the item flipped
toggleContest(items, id) ==
  [j \in DOMAIN items |->
     IF items[j].id = id
     THEN [items[j] EXCEPT !.isContested = ~items[j].isContested]
     ELSE items[j]]

\* VerdictSection.renderMyRebuttal: the initiator clicks an item of the
\* respondent's evidence, the respondent an item of the initiator's; the
\* whole list is submitted
ToggleContest(s) ==
  /\ shown(s) /\ local[s].status = CROSS_EXAMINATION
  /\ call[s].kind # "dispute"
  /\ \/ /\ isPlaintiff(s)
        /\ \E j \in DOMAIN local[s].defendantEvidence :
             updateCase(s, [defendantEvidence |->
               toggleContest(local[s].defendantEvidence, local[s].defendantEvidence[j].id)])
     \/ /\ isDefendant(s)
        /\ \E j \in DOMAIN local[s].evidence :
             updateCase(s, [evidence |->
               toggleContest(local[s].evidence, local[s].evidence[j].id)])
  /\ notice' = NoNotice
  /\ UNCHANGED <<call, nCalls, analyzed, rest>>

\* the initiator adds evidence again after a step back
ContestAddEvidence(s) == addEvidence(s, TraceEvidence)

\* the evidence of both sides and its contest on two devices that poll
NextContest ==
  \E s \in Sessions :
    \/ FilingSubmit(s)
    \/ ContestAddEvidence(s)
    \/ SubmitEvidence(s)
    \/ JoinCase(s)
    \/ AddDefendantEvidence(s)
    \/ DefenseSubmit(s)
    \/ SyncCaseFromCloud(s)
    \/ ToggleContest(s)
    \/ StepBack(s)

SpecContest == Init /\ [][NextContest]_vars

\* list b is list a with the contested flag of exactly one item flipped
oneFlagFlipped(a, b) ==
  /\ DOMAIN a = DOMAIN b
  /\ \E j \in DOMAIN a :
       /\ b[j] = [a[j] EXCEPT !.isContested = ~a[j].isContested]
       /\ \A k \in DOMAIN a \ {j} : b[k] = a[k]

\* C26 for the case shown: a toggle is made by the initiator on the
\* respondent's evidence or by the respondent on the initiator's, never by a
\* spectator; in the case shown it flips the flag of one item of that
\* collection and changes nothing else.
C26_ToggleInCaseShown ==
  [][\A s \in Sessions :
       ToggleContest(s) =>
         \/ /\ isPlaintiff(s)
            /\ oneFlagFlipped(local[s].defendantEvidence, local'[s].defendantEvidence)
            /\ local'[s] = [local[s] EXCEPT !.defendantEvidence = local'[s].defendantEvidence]
         \/ /\ isDefendant(s) /\ ~isPlaintiff(s)
            /\ oneFlagFlipped(local[s].evidence, local'[s].evidence)
            /\ local'[s] = [local[s] EXCEPT !.evidence = local'[s].evidence]]_vars

\* C26: a toggle is made by the side that did not submit the item and changes
\* nothing but the contested flag of one item: in the case shown, and in the
\* evidence the remote row holds.
C26_ToggleByOtherSideOnly ==
  [][\A s \in Sessions :
       (ToggleContest(s) /\ remote # NoRow) =>
         /\ isPlaintiff(s) \/ isDefendant(s)
         /\ IF isPlaintiff(s)
            THEN /\ oneFlagFlipped(remote.defendant_evidence, remote'.defendant_evidence)
                 /\ remote'.evidence = remote.evidence
            ELSE /\ oneFlagFlipped(remote.evidence, remote'.evidence)
                 /\ remote'.defendant_evidence = remote.defendant_evidence]_vars

\* C27: both shares of the split of a returned verdict lie in 0..100 (counted
\* in hundredths), whatever the model returned.
C27_SharesNonNegative ==
  verdict # NoResult =>
    /\ verdict.responsibilitySplit.plaintiff \in 0..(100 * 100)
    /\ verdict.responsibilitySplit.defendant \in 0..(100 * 100)

\* the same for outputs whose two shares are numbers that are not negative,
\* strings, or missing
C27_SharesOfUnsignedOutputs ==
  (/\ verdict # NoResult
   /\ raw.responsibilitySplit # NoSplit =>
        \A v \in {raw.responsibilitySplit.plaintiff, raw.responsibilitySplit.defendant} :
          v.type = "number" => v.num >= 0)
    => /\ verdict.responsibilitySplit.plaintiff \in 0..(100 * 100)
       /\ verdict.responsibilitySplit.defendant \in 0..(100 * 100)

\* ------------------------------------------------------------------ C28
\* the text of a raw penalty task that a cue is looked for in
taskText(t) == IF t.shape = "object" THEN looseContent(t) ELSE t.content

\* the raw task names no assignee and its text mentions neither side
noCue(t) ==
  /\ t.assignee = <<>>
  /\ ~includes(taskText(t), PlaintiffWord)
  /\ ~includes(taskText(t), <<"beigao">>)

\* the side with the greater share of a split whose shares differ
greaterShare(split) == IF split.defendant > split.plaintiff THEN DEFENDANT ELSE PLAINTIFF

\* C28: every penalty task of a returned verdict is {assignee, content} with
\* the assignee PLAINTIFF or DEFENDANT, whichever shape the model output had,
\* and a task with no assignee and no textual cue is assigned to the side
\* with the greater responsibility share
C28_PenaltyTasksCanonical ==
  verdict # NoResult =>
    \A i \in DOMAIN verdict.penaltyTasks :
      LET t == verdict.penaltyTasks[i]
          split == verdict.responsibilitySplit
      IN /\ DOMAIN t = {"assignee", "content"}
         /\ t.assignee \in {PLAINTIFF, DEFENDANT}
         /\ (noCue(raw.penaltyTasks[i]) /\ split.plaintiff # split.defendant)
              => t.assignee = greaterShare(split)

\* C28, the shape alone: every penalty task of a returned verdict is
\* {assignee, content} with the assignee PLAINTIFF or DEFENDANT
C28_TaskShape ==
  verdict # NoResult =>
    \A i \in DOMAIN verdict.penaltyTasks :
      /\ DOMAIN verdict.penaltyTasks[i] = {"assignee", "content"}
      /\ verdict.penaltyTasks[i].assignee \in {PLAINTIFF, DEFENDANT}

\* --------------------------------------------------- the two judging calls
\* the messages analyzeDisputeFocus throws itself
FormatError == "format error"
ParseFailed == "parse failed"

\* analyzeDisputeFocus, catch: the messages rethrown as they are (each message
\* of callGemini contains one of the three substrings looked for)
rethrown(message) == message \in {Adjourned, RateLimited, TimedOut}

\* JSON.parse(cleanJson(result)) of analyzeDisputeFocus: a SyntaxError, or an
\* object whose points is an array of n elements or not an array
FocusOutputs ==
  {SyntaxError, [points |-> FALSE, n |-> 0], [points |-> TRUE, n |-> 0],
   [points |-> TRUE, n |-> 1]}
\* JSON.parse(cleanJson(result)) of generateVerdict
VerdictOutputs ==
  {SyntaxError, RawOutput(NoSplit, FALSE, <<>>),
   RawOutput(Split(Number(60), Number(40)), TRUE, <<StringTask(<<"dishes">>)>>)}
parsedFrom(op, out) ==
  IF out.state = "returned" /\ out.value # ""
  THEN IF op = "analyzeDisputeFocus" THEN FocusOutputs ELSE VerdictOutputs
  ELSE {SyntaxError}

\* the try block of analyzeDisputeFocus
focusTry(out, parsed) ==
  IF out.state = "thrown" THEN out
  ELSE IF parsed = SyntaxError THEN Thrown("SyntaxError")
  ELSE IF ~parsed.points THEN Thrown(FormatError)
  ELSE Returned(parsed.n)

\* analyzeDisputeFocus: the messages of callGemini are rethrown, every other
\* error becomes the parse failure
analyzeDisputeFocus(out, parsed) ==
  IF focusTry(out, parsed).state = "thrown" /\ ~rethrown(focusTry(out, parsed).value)
  THEN Thrown(ParseFailed)
  ELSE focusTry(out, parsed)

\* the try block of generateVerdict
verdictTry(out, parsed) ==
  IF out.state = "thrown" THEN out
  ELSE IF parsed = SyntaxError THEN Thrown("SyntaxError")
  ELSE Returned(sanitize(parsed))

\* generateVerdict: every error of the try block becomes the same error
generateVerdict(out, parsed) ==
  IF verdictTry(out, parsed).state = "thrown"
  THEN Thrown(Adjourned)
  ELSE verdictTry(out, parsed)

JudgingOps == {"analyzeDisputeFocus", "generateVerdict"}
judging(op, out, parsed) ==
  IF op = "analyzeDisputeFocus" THEN analyzeDisputeFocus(out, parsed)
  ELSE generateVerdict(out, parsed)

\* an attempt of callGemini inside the operation
JudgingAttempt ==
  /\ asked # NoRequest /\ answer = NoResult
  /\ NextRetry

\* the operation returns or throws once callGemini has returned or thrown
JudgingReturns ==
  /\ asked # NoRequest /\ answer = NoResult
  /\ outcome # Pending
  /\ \E parsed \in parsedFrom(asked.op, outcome) :
       answer' = judging(asked.op, outcome, parsed)
  /\ UNCHANGED <<asked, caseVars, gatewayVars, verdictVars>>

InitJudging ==
  /\ InitCase
  /\ faults = 0
  /\ InitGateway
  /\ raw = NoRaw
  /\ verdict = NoResult
  /\ asked \in [op : JudgingOps, text : {"text"}]
  /\ answer = NoResult

NextJudging == JudgingAttempt \/ JudgingReturns

\* one call of analyzeDisputeFocus or generateVerdict
SpecJudging == InitJudging /\ [][NextJudging]_vars

\* ------------------------------------------------------------------ C29
\* the messages the operation throws when callGemini has thrown
transportMessages(op) ==
  {judging(op, Thrown(gatewayMessage(e)), SyntaxError).value : e \in Errors}

\* the call ended in an error although callGemini returned a text: the text
\* did not parse
parseFailure ==
  /\ answer # NoResult /\ answer.state = "thrown"
  /\ outcome.state = "returned"

\* C29: a failure to parse the model's JSON output reaches the caller of
\* analyzeDisputeFocus and of generateVerdict as an error that differs from
\* the one a transport failure (timeout, rate limit, backend unavailable)
\* reaches it as
C29_ParseFailureDistinguishable ==
  parseFailure => answer.value \notin transportMessages(asked.op)

\* C29 for analyzeDisputeFocus alone
C29_FocusParseFailureDistinguishable ==
  (parseFailure /\ asked.op = "analyzeDisputeFocus")
    => answer.value \notin transportMessages(asked.op)

\* ---------------------------------------------------------------- cleanJson
\* A text is a sequence of pieces: a brace, a bracket, a key or value of the
\* JSON ("k"), a word of prose ("x"), whitespace (" ") and the two markdown
\* fences (the opening one with its json tag, and the bare one).
FenceJson == "fence json"
Fence == "fence"

\* text.indexOf(ch), text.lastIndexOf(ch): positions counted from 0, -1 if none
indexOf(text, ch) ==
  IF \E i \in DOMAIN text : text[i] = ch
  THEN (CHOOSE i \in DOMAIN text :
          text[i] = ch /\ \A j \in DOMAIN text : text[j] = ch => i <= j) - 1
  ELSE -1
lastIndexOf(text, ch) ==
  IF \E i \in DOMAIN text : text[i] = ch
  THEN (CHOOSE i \in DOMAIN text :
          text[i] = ch /\ \A j \in DOMAIN text : text[j] = ch => j <= i) - 1
  ELSE -1

\* text.substring(from, to)
substring(text, from, to) == SubSeq(text, from + 1, to)

\* text.replace of the fence and the whitespace after it, from piece i on; skipping: the pieces
\* before i ended in the fence and whitespace
RECURSIVE replaceFrom(_, _, _, _)
replaceFrom(text, fence, i, skipping) ==
  IF i > Len(text) THEN <<>>
  ELSE IF text[i] = fence THEN replaceFrom(text, fence, i + 1, TRUE)
  ELSE IF skipping /\ text[i] = " " THEN replaceFrom(text, fence, i + 1, TRUE)
  ELSE <<text[i]>> \o replaceFrom(text, fence, i + 1, FALSE)
replace(text, fence) == replaceFrom(text, fence, 1, FALSE)

\* text.trim()
trim(text) ==
  IF \A i \in DOMAIN text : text[i] = " " THEN <<>>
  ELSE SubSeq(text,
              CHOOSE i \in DOMAIN text :
                text[i] # " " /\ \A j \in 1..(i - 1) : text[j] = " ",
              CHOOSE i \in DOMAIN text :
                text[i] # " " /\ \A j \in (i + 1)..Len(text) : text[j] = " ")

\* Math.max
max(a, b) == IF a > b THEN a ELSE b

\* cleanJson
cleanJson(text) ==
  LET cleaned == replace(replace(text, FenceJson), Fence)
      firstBrace == indexOf(cleaned, "{")
      firstBracket == indexOf(cleaned, "[")
      startIdx == IF firstBrace # -1 /\ (firstBracket = -1 \/ firstBrace < firstBracket)
                  THEN firstBrace
                  ELSE IF firstBracket # -1 THEN firstBracket ELSE -1
      endIdx == max(lastIndexOf(cleaned, "}"), lastIndexOf(cleaned, "]"))
  IN trim(IF startIdx # -1 /\ endIdx > startIdx
          THEN substring(cleaned, startIdx, endIdx + 1)
          ELSE cleaned)

\* the responses cleaned: prose and fences, one JSON object or array, and
\* trailing prose that may hold brackets of the other kind
JsonValues ==
  { <<"{", "}">>, <<"[", "]">>, <<"{", "k", "[", "k", "]", "}">>,
    <<"[", "{", "k", "}", "]">> }
LeadPieces == {"x", " ", FenceJson}
otherKind(value) == IF value[1] = "{" THEN {"[", "]"} ELSE {"{", "}"}
TrailPieces(value) == {"x", " ", Fence} \cup otherKind(value)
Proses(pieces) == UNION {[1..n -> pieces] : n \in 0..MaxProse}
\* prose before a JSON value holds no brace or bracket
Responses ==
  {[op |-> "cleanJson", lead |-> l, value |-> v, trail |-> t] :
     l \in Proses(LeadPieces), v \in JsonValues, t \in Proses({"x", " ", Fence, "[", "]", "{", "}"})}
textOfResponse(r) == r.lead \o r.value \o r.trail

\* cleanJson applied to the response
CleanJson ==
  /\ asked # NoRequest /\ answer = NoResult
  /\ answer' = Returned(cleanJson(textOfResponse(asked)))
  /\ UNCHANGED <<asked, caseVars, gatewayVars, verdictVars>>

InitClean ==
  /\ InitCase
  /\ faults = 0
  /\ InitGateway
  /\ raw = NoRaw
  /\ verdict = NoResult
  /\ asked \in {r \in Responses : \A i \in DOMAIN r.trail : r.trail[i] \in TrailPieces(r.value)}
  /\ answer = NoResult

NextClean == CleanJson

\* cleanJson of one response
SpecClean == InitClean /\ [][NextClean]_vars

\* ------------------------------------------------------------------ C30
\* the closing brace or bracket that matches the opener of the value
closerOf(value) == IF value[1] = "{" THEN "}" ELSE "]"

\* the response without its fences, as cleanJson searches it
unfenced(r) == replace(replace(textOfResponse(r), FenceJson), Fence)

\* C30: for a response made of prose or fences, one JSON object or array and
\* trailing prose (also with brackets of the other kind), the result of
\* cleanJson runs from the first opening brace or bracket to the last closing
\* one that matches that opener, and so is the embedded value
C30_CleanJsonExtractsValue ==
  answer # NoResult =>
    /\ answer.value =
         substring(unfenced(asked),
                   indexOf(unfenced(asked), asked.value[1]),
                   lastIndexOf(unfenced(asked), closerOf(asked.value)) + 1)
    /\ answer.value = asked.value

\* C30 for trailing prose with no closing brace or bracket in it: the result
\* of cleanJson is the embedded value
C30_PlainTrailExtractsValue ==
  (answer # NoResult /\ \A i \in DOMAIN asked.trail : asked.trail[i] \notin {"}", "]"})
    => answer.value = asked.value

\* ------------------------------------------- fingerprint and generation input
\* handleFinishCrossExam: the arguments analyzeDisputeFocus is called with,
\* the evidence as the prompt reads it (type and description of each item)
focusArguments(c) ==
  << c.category, c.description, c.defenseStatement, c.plaintiffRebuttal,
     orEmpty(c.defendantRebuttal),
     [i \in DOMAIN c.evidence |-> <<c.evidence[i].type, c.evidence[i].description>>] >>

\* the case contents compared: the category, the texts and at most one
\* evidence item of the initiator
Categories == {"relationship", "property"}
ContentTexts == {"", "text"}
EvidenceTypes == {"TEXT", "IMAGE"}
EvidenceLists ==
  {<<>>} \cup
  {<<[id |-> 1, type |-> t, description |-> d, isContested |-> b, submittedBy |-> PLAINTIFF]>> :
     t \in EvidenceTypes, d \in {"ev", "photo"}, b \in BOOLEAN}
Contents ==
  [category : Categories, description : ContentTexts, defenseStatement : ContentTexts,
   plaintiffRebuttal : {""}, defendantRebuttal : ContentTexts,
   evidence : EvidenceLists, defendantEvidence : {<<>>}]

\* computeContentHash of two states of the case
CompareHashes ==
  /\ asked # NoRequest /\ answer = NoResult
  /\ answer' = Returned(<<computeContentHash(asked.a), computeContentHash(asked.b)>>)
  /\ UNCHANGED <<asked, caseVars, gatewayVars, verdictVars>>

InitCompare ==
  /\ InitCase
  /\ faults = 0
  /\ InitGateway
  /\ raw = NoRaw
  /\ verdict = NoResult
  /\ asked \in [op : {"computeContentHash"}, a : Contents, b : Contents]
  /\ answer = NoResult

NextCompare == CompareHashes

\* the fingerprints of two states of the case
SpecCompare == InitCompare /\ [][NextCompare]_vars

sameItems(a, b) ==
  /\ a.category = b.category
  /\ \A i \in DOMAIN a.evidence, j \in DOMAIN b.evidence :
       a.evidence[i].id = b.evidence[j].id => a.evidence[i].type = b.evidence[j].type

\* C31 for states with one category whose evidence ids identify the items:
\* the fingerprints differ whenever an argument of analyzeDisputeFocus does
C31_FingerprintCoversTexts ==
  (answer # NoResult /\ sameItems(asked.a, asked.b))
    => (focusArguments(asked.a) # focusArguments(asked.b)
          => answer.value[1] # answer.value[2])

\* the debate entered again after a step back: extraction, arguments, step
\* back and the finish of the cross-examination, with polling
NextReuse ==
  \E s \in Sessions :
    \/ FilingSubmit(s)
    \/ SubmitEvidence(s)
    \/ JoinCase(s)
    \/ DefenseSubmit(s)
    \/ SyncCaseFromCloud(s)
    \/ FinishCrossExam(s)
    \/ DisputeDone(s)
    \/ FillArgument(s)
    \/ StepBack(s)

SpecReuse == Init /\ [][NextReuse]_vars

\* ------------------------------------------------------------------ C32
\* C32: a finish of the cross-examination that finds dispute points stored
\* under the fingerprint of the present content changes the stage to DEBATE
\* and nothing else: the stored points with every argument entered and the
\* stored fingerprint stay, in the case shown and in the remote row.
C32_SkipPathKeepsPoints ==
  [][\A s \in Sessions :
       (/\ shown(s)
        /\ Len(local[s].disputePoints) > 0
        /\ local[s].lastAnalyzedHash = computeContentHash(local[s])
        /\ FinishCrossExam(s))
         => /\ local'[s] = [local[s] EXCEPT !.status = DEBATE]
            /\ remote # NoRow => remote' = [remote EXCEPT !.status = DEBATE]
            /\ call' = call /\ nCalls' = nCalls]_vars

\* session A is in DEBATE again with its argument and the fingerprint of the
\* one extraction made, after session B has seen the case stepped back to
\* CROSS_EXAMINATION with that argument entered
C32_Witness ==
  /\ local["A"] # NoCase /\ local["A"].status = DEBATE
  /\ Len(local["A"].disputePoints) > 0
  /\ local["A"].disputePoints[1].plaintiffArg = "arg"
  /\ local["A"].lastAnalyzedHash = computeContentHash(local["A"])
  /\ local["B"] # NoCase /\ local["B"].status = CROSS_EXAMINATION
  /\ local["B"].disputePoints = local["A"].disputePoints
  /\ remote # NoRow /\ remote.status = DEBATE
  /\ nCalls = 1 /\ call = [s \in Sessions |-> NoCall]

\* ------------------------------------------------------------------ C33
\* the result of the inference call of session s changes the case shown or
\* the remote row
resultWritten(s) == local'[s] # local[s] \/ remote' # remote

\* C33: the result of an inference call is written only to a case that is
\* still there and still in the stage the call was started in: the dispute
\* points (with stage DEBATE) only while the case is in CROSS_EXAMINATION, the
\* verdict (with stage CLOSED) only while it is in ADJUDICATING, whatever
\* step back, advance or deletion happened during the call.
C33_ResultOnlyInCompatibleStage ==
  [][\A s \in Sessions :
       /\ (DisputeDone(s) /\ resultWritten(s))
            => /\ local[s] # NoCase /\ local[s].status = CROSS_EXAMINATION
               /\ remote # NoRow => remote.status = CROSS_EXAMINATION
       /\ (JudgementDone(s) /\ resultWritten(s))
            => /\ local[s] # NoCase /\ local[s].status = ADJUDICATING
               /\ remote # NoRow => remote.status = ADJUDICATING]_vars

\* C33 for the case shown alone: the result is written only while the case
\* shown by the calling session is in the stage the call was started in
C33_ResultOnlyInShownStage ==
  [][\A s \in Sessions :
       /\ (DisputeDone(s) /\ resultWritten(s))
            => local[s] # NoCase /\ local[s].status = CROSS_EXAMINATION
       /\ (JudgementDone(s) /\ resultWritten(s))
            => local[s] # NoCase /\ local[s].status = ADJUDICATING]_vars

\* ------------------------------------------------------------------ C34
\* C34: nothing keeps two verdict generations of one case apart: both
\* participants can have one in flight in ADJUDICATING, and every generation
\* that returns writes its verdict and CLOSED to its session's case and to
\* the remote row, whatever verdict the row already held, so the row ends
\* with the verdict written last.
C34_LastVerdictWins ==
  [][\A s \in Sessions :
       (JudgementDone(s) /\ local[s] # NoCase)
         => /\ local'[s].status = CLOSED
            /\ local'[s].verdict = <<[defense |-> call[s].defense]>>
            /\ remote # NoRow
                 => /\ remote'.status = CLOSED
                    /\ remote'.verdict = local'[s].verdict]_vars

\* both participants have a verdict generation of the case in flight, each
\* session showing the case in ADJUDICATING
C34_Witness ==
  /\ \A s \in Sessions :
       /\ shown(s) /\ local[s].status = ADJUDICATING
       /\ call[s].kind = "verdict"
  /\ isPlaintiff("A") /\ isDefendant("B")
  /\ remote # NoRow /\ remote.status = ADJUDICATING

\* both generations have returned: the case is CLOSED in both sessions and in
\* the remote row, after two inference calls and no dispute extraction
C34_BothReturned ==
  /\ \A s \in Sessions :
       /\ shown(s) /\ local[s].status = CLOSED /\ local[s].verdict # NoVerdict
       /\ local[s].disputePoints = <<>>
       /\ call[s] = NoCall
  /\ nCalls = 2
  /\ remote # NoRow /\ remote.status = CLOSED /\ remote.verdict # NoVerdict

\* ------------------------------------------------------------------ C35
\* session s, whose case was the remote row as read, has its case updated
\* by a handler and the remote write has not failed
updatedInStep(s) ==
  /\ shown(s) /\ remote # NoRow /\ local[s] = fromRow(remote)
  /\ local'[s] # NoCase /\ local'[s] # local[s]
  /\ faults' = faults
  /\ ~SyncCaseFromCloud(s) /\ ~JoinCase(s)

\* C35: every attribute updateCase writes reaches a column of the remote row
\* and is read back by syncCaseFromCloud: after an update whose remote write
\* succeeded, the case read back from the row is the case as updated in every
\* attribute, the fingerprint lastAnalyzedHash included.
C35_PersistenceRoundTrip ==
  [][\A s \in Sessions : updatedInStep(s) => fromRow(remote') = local'[s]]_vars

\* C35 without the fingerprint: the case read back from the row is the case
\* as updated in every attribute but lastAnalyzedHash
C35_RoundTripButFingerprint ==
  [][\A s \in Sessions :
       updatedInStep(s)
         => fromRow(remote') = [local'[s] EXCEPT !.lastAnalyzedHash = NoHash]]_vars

\* ------------------------------------------------------------------ C36
\* session s resets the default judgment of the case it shows: a step back
\* from ADJUDICATING or an appeal from CLOSED, the defence being the sentinel
resetsDefault(s) ==
  /\ shown(s) /\ local[s].defenseStatement = AbsentStatement
  /\ \/ local[s].status = ADJUDICATING /\ StepBack(s)
     \/ local[s].status = CLOSED /\ Appeal(s)

\* C36: the reset of the default-judgment fields is persisted: after it
\* neither the case shown nor the remote row holds the sentinel in the
\* defence statement or in the defence summary.
C36_DefaultResetPersisted ==
  [][\A s \in Sessions :
       resetsDefault(s)
         => /\ local'[s].defenseStatement # AbsentStatement
            /\ local'[s].defenseSummary # AbsentSummary
            /\ remote' # NoRow
                 => /\ remote'.defense_statement # AbsentStatement
                    /\ remote'.defense_summary # AbsentSummary]_vars

\* C36 without the summary column: after the reset the case shown holds no
\* sentinel and the remote row holds none in the defence statement
C36_DefaultResetButSummary ==
  [][\A s \in Sessions :
       resetsDefault(s)
         => /\ local'[s].defenseStatement # AbsentStatement
            /\ local'[s].defenseSummary # AbsentSummary
            /\ remote' # NoRow => remote'.defense_statement # AbsentStatement]_vars

\* -------------------------------------------------------------- smartGenerate
\* the models of the service that has the second provider
GEMINI_MODEL_FLASH == "gemini-3-flash-preview"
GEMINI_MODEL_PRO == "gemini-3-pro-preview"
GEMINI_MODEL_FALLBACK == "gemini-flash-latest"
GEMINI_MODEL_SIMPLE == "gemini-1.5-flash"
DEEPSEEK_MODEL == "deepseek-chat"

\* retryWithBackoff(operation, retries = 4, initialDelay = 2000) of that service
generateRetries == 4
generateDelay == 2000

\* a request of smartGenerate: key tells whether DEEPSEEK_API_KEY is set,
\* images whether params.images has an item, model is params.model
GenerateRequests ==
  [ op : {"smartGenerate"}, key : BOOLEAN, images : BOOLEAN,
    model : {Undefined, GEMINI_MODEL_SIMPLE},
    complexity : {Undefined, "simple", "complex"} ]

\* replies of the providers: a text, no text, or an error with its status,
\* its code and the substrings of its message the service looks for
GenerateReplies ==
  { response("text"), response(Undefined),
    failure(503, 0, {}), failure(0, 429, {}), failure(404, 0, {}),
    failure(400, 0, {}), failure(0, 0, {"demand"}) }

\* error?.status || error?.code
codeOf(e) == IF e.status # 0 THEN e.status ELSE e.code

\* retryWithBackoff of that service: isTransient
isTransientGenerate(e) ==
  \/ codeOf(e) = 503
  \/ codeOf(e) = 429
  \/ codeOf(e) = 500
  \/ "overloaded" \in e.message
  \/ "busy" \in e.message
  \/ "demand" \in e.message

\* every error of the primary model leads to the stable model
fallsBackAlways(e) == TRUE

\* smartGenerate: the errors of the primary model after which the stable model
\* is tried
fallsBack(e) ==
  \/ codeOf(e) = 503
  \/ codeOf(e) = 500
  \/ codeOf(e) = 404
  \/ "demand" \in e.message
  \/ "overloaded" \in e.message

\* smartGenerate: hasImages, skipDeepSeek and the condition of the first try
hasImages(p) == p.images
skipDeepSeek(p) == p.model # Undefined
triesDeepSeek(p) == p.key /\ ~hasImages(p) /\ ~skipDeepSeek(p)

\* smartGenerate: modelName (explicit, else by complexity and images)
modelName(p) ==
  IF p.model # Undefined THEN p.model
  ELSE IF p.complexity = "complex" \/ hasImages(p) THEN GEMINI_MODEL_PRO
  ELSE GEMINI_MODEL_FLASH

\* one call of a provider as the log keeps it
sent(step, model, reply) == [step |-> step, model |-> model, reply |-> reply]
lastSent == log[Len(log)]

\* an error leaves tryModel: retryWithBackoff waits and runs the operation
\* again, or the error leaves smartGenerate (the error thrown is the reply of
\* the last call of the log)
generateFailed(e) ==
  IF isTransientGenerate(e) /\ attempt < generateRetries - 1
  THEN /\ waits' = Append(waits, generateDelay * 2^attempt)
       /\ attempt' = attempt + 1
       /\ UNCHANGED outcome
  ELSE /\ outcome' = Thrown("error")
       /\ UNCHANGED <<attempt, waits>>

\* deepseek.chat.completions.create: a content is returned, no content and
\* every error lead on to the primary backend
DeepSeekTried ==
  /\ outcome = Pending /\ log = <<>> /\ triesDeepSeek(asked)
  /\ \E r \in GenerateReplies :
       /\ log' = Append(log, sent("deepseek", DEEPSEEK_MODEL, r))
       /\ outcome' = IF r.ok /\ r.text # Undefined THEN Returned(r.text) ELSE Pending
  /\ UNCHANGED <<attempt, waits, answer, asked, caseVars, verdictVars>>

\* the operation of retryWithBackoff starts: tryModel(modelName)
PrimaryTried ==
  /\ outcome = Pending
  /\ \/ log = <<>> /\ ~triesDeepSeek(asked)
     \/ log # <<>> /\ lastSent.step = "deepseek"
     \/ log # <<>> /\ lastSent.step = "primary" /\ ~fallsBack(lastSent.reply)
     \/ log # <<>> /\ lastSent.step = "fallback"
  /\ \E r \in GenerateReplies :
       /\ log' = Append(log, sent("primary", modelName(asked), r))
       /\ IF r.ok
          THEN outcome' = Returned(textOf(r)) /\ UNCHANGED <<attempt, waits>>
          ELSE IF fallsBack(r) THEN UNCHANGED <<outcome, attempt, waits>>
          ELSE generateFailed(r)
  /\ UNCHANGED <<answer, asked, caseVars, verdictVars>>

\* tryModel(GEMINI_MODEL_FALLBACK) in the catch of the primary model
FallbackTried ==
  /\ outcome = Pending
  /\ log # <<>> /\ lastSent.step = "primary" /\ fallsBack(lastSent.reply)
  /\ \E r \in GenerateReplies :
       /\ log' = Append(log, sent("fallback", GEMINI_MODEL_FALLBACK, r))
       /\ IF r.ok
          THEN outcome' = Returned(textOf(r)) /\ UNCHANGED <<attempt, waits>>
          ELSE generateFailed(r)
  /\ UNCHANGED <<answer, asked, caseVars, verdictVars>>

InitGenerate ==
  /\ InitCase /\ remote = NoRow
  /\ faults = 0
  /\ InitGateway
  /\ raw = NoRaw
  /\ verdict = NoResult
  /\ asked \in GenerateRequests
  /\ answer = NoResult

NextGenerate == DeepSeekTried \/ PrimaryTried \/ FallbackTried

\* one call of smartGenerate
SpecGenerate == InitGenerate /\ [][NextGenerate]_vars

\* ------------------------------------------------------------------ C37
\* the calls of the log at which the second provider, the primary model or
\* the stable model was tried
triedAt(step) == {i \in DOMAIN log : log[i].step = step}

\* a failure retryWithBackoff counts as transient, or a server failure (5xx)
transientOrServer(e) ==
  ~e.ok /\ (isTransientGenerate(e) \/ (codeOf(e) >= 500 /\ codeOf(e) <= 599))

\* the order of the calls but for the condition of the stable model: the
\* second provider is the first call whenever it is configured and the request
\* has neither images nor an explicit model, and is called in no other case;
\* the call after it is the primary backend, reached because the second
\* provider gave no content; without an explicit model the primary model is
\* the higher-capability one for a complex request or one with images, else
\* the default one; the stable model is called right after a failed call of
\* the primary model only
orderOfCalls ==
  /\ \A i \in triedAt("deepseek") :
       /\ i = 1 /\ triesDeepSeek(asked)
       /\ log[i].model = DEEPSEEK_MODEL
       /\ Len(log) > 1 =>
            /\ log[2].step = "primary"
            /\ ~(log[1].reply.ok /\ log[1].reply.text # Undefined)
  /\ (log # <<>> /\ triesDeepSeek(asked)) => log[1].step = "deepseek"
  /\ hasImages(asked) => triedAt("deepseek") = {}
  /\ \A i \in triedAt("primary") :
       asked.model = Undefined =>
         log[i].model = IF asked.complexity = "complex" \/ asked.images
                        THEN GEMINI_MODEL_PRO ELSE GEMINI_MODEL_FLASH
  /\ \A i \in triedAt("fallback") :
       /\ log[i].model = GEMINI_MODEL_FALLBACK
       /\ i > 1 /\ log[i - 1].step = "primary" /\ ~log[i - 1].reply.ok

Reads == {"row", "error", "missing", "thrown"}

\* the read can give the row only if there is one, and no row only if there
\* is none
canRead(read) ==
  /\ read = "row" => remote # NoRow
  /\ read = "missing" => remote = NoRow

\* a failed read hands back the row mapped, or nothing, and drops the copy
syncedDropping(c, read) == IF read = "row" THEN syncResult(c, remote) ELSE NoCase

\* MockDb.syncCaseFromCloud: the value returned, which is the local case
\* afterwards too (db[caseId] || null after a failed read, the local case
\* under the guard, otherwise the row mapped and saved)
synced(c, read) == IF read = "row" THEN syncResult(c, remote) ELSE c

\* MockDb.syncCaseFromCloud(caseId) called in session s, from getDb to its
\* return: asked keeps the store as read at the start, answer the read and
\* the value returned
SyncReturns(s) ==
  \E read \in Reads :
    /\ canRead(read)
    /\ asked' = [op |-> "syncCaseFromCloud", session |-> s, db |-> local[s]]
    /\ answer' = [read |-> read, value |-> synced(local[s], read)]
    /\ local' = [local EXCEPT ![s] = synced(local[s], read)]
    /\ notice' = IF read = "row" /\ staleRemote(local[s], remote)
                 THEN <<s, "sync_stale">>
                 ELSE IF read = "thrown" THEN <<s, "sync_failed">>
                 ELSE NoNotice
    /\ UNCHANGED <<remote, user, call, nCalls, nSwitch, faults, analyzed,
                   gatewayVars, verdictVars>>

\* the workflow up to ADJUDICATING of two polling sessions, the deletion of
\* the local case, and the calls of syncCaseFromCloud whose results are kept
NextRead ==
  \E s \in Sessions :
    \/ answer = NoResult /\ FilingSubmit(s)
    \/ answer = NoResult /\ SubmitEvidence(s)
    \/ answer = NoResult /\ JoinCase(s)
    \/ answer = NoResult /\ DefenseSubmit(s)
    \/ answer = NoResult /\ FinishCrossExam(s)
    \/ answer = NoResult /\ DisputeDone(s)
    \/ answer = NoResult /\ ProceedToVerdict(s)
    \/ answer = NoResult /\ StepBack(s)
    \/ answer = NoResult /\ DeleteCase(s)
    \/ answer = NoResult /\ SyncCaseFromCloud(s)
    \/ SyncReturns(s)

SpecRead == Init /\ [][NextRead]_vars

\* ------------------------------------------------------------------ C38
\* the call of syncCaseFromCloud by session s has just returned after reading
\* the row
rowSynced(s) ==
  /\ answer' # NoResult /\ answer'.read = "row"
  /\ asked'.session = s
  /\ SyncReturns(s)

\* the stale-read condition: the row is in CROSS_EXAMINATION and the local
\* case is in a later stage
staleRead(c, row) ==
  /\ c # NoCase
  /\ row.status = CROSS_EXAMINATION
  /\ statusOrder(c.status) > statusOrder(row.status)

\* C38: outside the stale-read condition a call of syncCaseFromCloud that
\* read the row replaces the whole local case by the row as mapped and
\* returns it, so the local stage is the remote stage afterwards, also when
\* the row is behind the local case.
C38_SyncReplacesLocal ==
  [][\A s \in Sessions :
       (rowSynced(s) /\ ~staleRead(local[s], remote))
         => /\ local'[s] = fromRow(remote)
            /\ local'[s].status = remote.status
            /\ answer'.value = local'[s]]_vars

\* a session whose case was in ADJUDICATING has read the row, which was back
\* in DEBATE, and now shows DEBATE
C38_Witness ==
  /\ asked # NoRequest /\ asked.db # NoCase /\ asked.db.status = ADJUDICATING
  /\ answer.read = "row" /\ answer.value.status = DEBATE
  /\ local[asked.session].status = DEBATE
  /\ remote.status = DEBATE

\* the same for a row back in DEFENSE_PENDING read by a session whose case was
\* in CROSS_EXAMINATION
C38_WitnessDefense ==
  /\ asked # NoRequest /\ asked.db # NoCase /\ asked.db.status = CROSS_EXAMINATION
  /\ answer.read = "row"
  /\ local[asked.session].status = DEFENSE_PENDING
  /\ remote.status = DEFENSE_PENDING

\* ------------------------------------------------------------------ C40
\* the call of syncCaseFromCloud by session s has just returned after a read
\* that failed
readFailed(s) ==
  /\ answer' # NoResult /\ answer'.read # "row"
  /\ asked'.session = s
  /\ SyncReturns(s)

\* C40: when the read of the remote row fails (error result, no row, or an
\* exception) the call of syncCaseFromCloud leaves every local case and the
\* remote row as they were and returns the local case of the session, or
\* nothing when the session has none.
C40_FailedReadKeepsLocal ==
  [][\A s \in Sessions :
       readFailed(s)
         => /\ local' = local
            /\ remote' = remote
            /\ answer'.value = local[s]
            /\ local[s] = NoCase => answer'.value = NoCase]_vars

\* a session in CROSS_EXAMINATION whose read threw keeps its case, which is
\* the value returned, while the row is in another stage
C40_Witness ==
  /\ asked # NoRequest /\ asked.db # NoCase
  /\ asked.db.status = CROSS_EXAMINATION
  /\ answer.read = "thrown"
  /\ answer.value = asked.db
  /\ local[asked.session] = asked.db
  /\ remote # NoRow /\ remote.status = DEFENSE_PENDING
  /\ notice = <<asked.session, "sync_failed">>

\* a session without the case whose read gave an error result got nothing
C40_WitnessNull ==
  /\ asked # NoRequest /\ asked.db = NoCase
  /\ answer.read = "error"
  /\ answer.value = NoCase
  /\ local[asked.session] = NoCase

\* --------------------------------------------------- joinCase and its result
\* the codes entered: the share code of the case, or a code of no case
JoinCodes == {"code", "other"}

\* what the read by share code gives: the row, an error result or no row, or
\* an exception
joinReads(code) ==
  IF code = "code" /\ remote # NoRow THEN {"row", "error", "thrown"}
  ELSE {"error", "thrown"}

\* the results of joinCase
joined == [success |-> TRUE, error |-> ""]
joinFailed(error) == [success |-> FALSE, error |-> error]

\* MockDb.joinCase: the result of a call that ends at its validation, or
\* joined when the row passes
joinChecked(read, row, u) ==
  IF read = "thrown" THEN joinFailed("network")
  ELSE IF read = "error" THEN joinFailed("invalid code")
  ELSE IF ~joinRejected(row, u) THEN joined
  ELSE IF row.plaintiff_id = u THEN joinFailed("is plaintiff")
  ELSE joinFailed("has defendant")

\* MockDb.joinCase(code, defendantId) called in session s by its user, from
\* the read to the return: asked keeps the arguments, answer the result.  A
\* row that passes the validation without a respondent is written (the write
\* may fail), a row with the joiner as respondent is not; the row with the
\* joiner as respondent becomes the local case.
JoinReturns(s) ==
  \E code \in JoinCodes :
    \E read \in joinReads(code) :
      LET u == user[s]
          result == joinChecked(read, remote, u)
      IN /\ asked' = [op |-> "joinCase", session |-> s, code |-> code, defendantId |-> u]
         /\ \/ /\ ~result.success
               /\ answer' = result
               /\ UNCHANGED <<remote, local>>
            \/ /\ result.success /\ remote.defendant_id = NoUser
               /\ answer' = joinFailed("cloud sync")
               /\ UNCHANGED <<remote, local>>
            \/ /\ result.success
               /\ answer' = result
               /\ remote' = IF remote.defendant_id # NoUser THEN remote
                            ELSE updateRow(remote, [defendant_id |-> u])
               /\ local' = [local EXCEPT ![s] = fromRow([remote EXCEPT !.defendant_id = u])]
         /\ notice' = IF answer'.error \in {"network", "cloud sync"}
                      THEN <<s, "join_failed">> ELSE NoNotice
         /\ UNCHANGED <<user, call, nCalls, nSwitch, faults, analyzed,
                        gatewayVars, verdictVars>>

\* the filing with account switches, joins that interleave at their awaits,
\* and joins whose results are kept
NextRejoin ==
  \E s \in Sessions :
    \/ FilingSubmit(s)
    \/ SubmitEvidence(s)
    \/ SwitchUser(s)
    \/ JoinRead(s)
    \/ JoinWrite(s)
    \/ JoinReturns(s)

SpecRejoin == Init /\ [][NextRejoin]_vars

\* ------------------------------------------------------------------ C39
\* the call of joinCase by session s has just returned
joinReturned(s) ==
  /\ answer' # NoResult /\ asked'.op = "joinCase" /\ asked'.session = s
  /\ JoinReturns(s)

\* the code entered matches the case
matches(code) == code = "code" /\ remote # NoRow

\* no case has its initiator as its respondent, in the remote row or in a
\* local case
identitiesDiffer ==
  /\ remote # NoRow => remote.plaintiff_id # remote.defendant_id
  /\ \A s \in Sessions : shown(s) => local[s].plaintiffId # local[s].defendantId

\* C39: joinCase returns an error result and changes neither a local case nor
\* the remote row when the code matches no case, when the joiner is the
\* initiator of the case, or when another respondent is bound to it; so the
\* initiator and the respondent of a case are never the same user; a join
\* repeated by the respondent bound to the case leaves the respondent as it
\* is and succeeds (once the row has been read).
C39_JoinRejections ==
  /\ []identitiesDiffer
  /\ [][\A s \in Sessions :
          joinReturned(s) =>
            /\ (\/ ~matches(asked'.code)
                \/ remote.plaintiff_id = user[s]
                \/ remote.defendant_id \notin {NoUser, user[s]})
                 => /\ ~answer'.success
                    /\ local' = local
                    /\ remote' = remote
            /\ (matches(asked'.code) /\ remote.defendant_id = user[s])
                 => /\ remote' = remote
                    /\ answer'.success \/ answer'.error \in {"network", "invalid code"}
                    /\ answer'.success =>
                         /\ local'[s] = fromRow(remote)
                         /\ local'[s].defendantId = user[s]]_vars

\* a third user entered the code of a case whose respondent is u2: the call
\* failed, the row and the local case of the session name u2 as before
C39_Witness ==
  /\ asked # NoRequest /\ asked.op = "joinCase"
  /\ asked.code = "code" /\ asked.defendantId = "u3"
  /\ answer = joinFailed("has defendant")
  /\ remote.defendant_id = "u2"
  /\ shown(asked.session) /\ local[asked.session].defendantId = "u2"

\* the initiator entered the code of the case in another session and failed
C39_WitnessInitiator ==
  /\ asked # NoRequest /\ asked.op = "joinCase"
  /\ asked.defendantId = "u1" /\ asked.session = "B"
  /\ answer = joinFailed("is plaintiff")
  /\ remote.plaintiff_id = "u1" /\ local["B"] = NoCase

\* the respondent joined a second time, after another session had shown the
\* case to the same user, and succeeded
C39_WitnessRepeat ==
  /\ asked # NoRequest /\ asked.op = "joinCase"
  /\ asked.defendantId = "u2" /\ asked.session = "A"
  /\ answer = joined
  /\ remote.defendant_id = "u2"
  /\ local["A"].defendantId = "u2" /\ shown("B") /\ local["B"].defendantId = "u2"
====
